---- MODULE Spec2Model ----
(***************************************************************************)
(* MediTrace: the verification pipeline of backend/main.py over the SQLite *)
(* store of backend/database*.py, with the geospatial checks of            *)
(* backend/anomaly_detection.py, the speed feature of                      *)
(* backend/ml_models/feature_extractor.py and the ledger of                *)
(* backend/blockchain.py.                                                  *)
(*                                                                         *)
(* Units of measure.  A timestamp is a whole number of ticks of five       *)
(* minutes (the store keeps seconds; every instant the model uses is a     *)
(* multiple of 300 s).  A distance is a whole number of hundredths of a    *)
(* kilometre, the precision the anomaly records keep (round(distance, 2)). *)
(* A speed is the exact quotient distance / elapsed hours, or +infinity.   *)
(***************************************************************************)
EXTENDS Integers, Sequences, FiniteSets, TLC

\* ------------------------------------------------------------------ bounds
\* Drugs a run may ever insert (the AUTOINCREMENT id stays within it).
MaxUnits == 2
\* Checkpoints one unit may carry in the request workload.
MaxEvents == 3
\* Last tick of the wall clock in the request workload.
MaxTime == 1
\* Rows the failed_attempts table may reach in the request workload.
MaxLog == 2
\* Units the first start seeds (seed_sample_data seeds 89).
SeedUnits == 1
\* Batch identifiers a run may hand out.
MaxBatches == 2
\* Longest checkpoint series a persisted store is drawn with.
MaxSeriesLen == 3
\* Latest timestamp (in ticks) a drawn series may carry.
MaxSeriesTime == 2
\* Largest burst of scans of one unit a persisted store is drawn with.
MaxBurst == 12
\* Rows the failed_attempts table may reach over a persisted store.
MaxSeriesLog == 1
MaxFeatureLen == 2

\* ------------------------------------------------------- units of measure
\* time_diff_hours = time_diff_seconds / 3600: ticks in one hour.
TicksPerHour == 12
\* round(distance, 2): distances are carried in 1/100 km.
KmScale == 100

\* Python's None where a record (a dict) may stand, and where a number may.
None == [none |-> TRUE]
NoCoord == 9999999

\* ------------------------------------------------------------ coordinates
\* Latitude / longitude in 1/10000 degree.  The first three places are the
\* checkpoints generate_batch writes; Delhi is the cloning demo's target;
\* Null Island is the point 0.0, 0.0.
Places ==
  {"Bangalore Factory", "Chennai Warehouse", "Mumbai Retail",
   "Delhi", "Thane", "Lonavala", "Null Island"}

Coord ==
  [p \in Places |->
     CASE p = "Bangalore Factory" -> <<129716, 775946>>
       [] p = "Chennai Warehouse" -> <<130827, 802707>>
       [] p = "Mumbai Retail"     -> <<190760, 728777>>
       [] p = "Delhi"             -> <<287041, 771025>>
       [] p = "Thane"             -> <<192183, 729781>>
       [] p = "Lonavala"          -> <<187546, 734062>>
       [] p = "Null Island"       -> <<0, 0>>]

\* The haversine formula (R = 6371 km) evaluated on every pair of Places,
\* rounded to 1/100 km.
GreatCircle ==
  { <<"Bangalore Factory", "Chennai Warehouse", 29017>>,
    <<"Bangalore Factory", "Mumbai Retail",     84532>>,
    <<"Bangalore Factory", "Delhi",            175011>>,
    <<"Bangalore Factory", "Thane",             85171>>,
    <<"Bangalore Factory", "Lonavala",          78357>>,
    <<"Chennai Warehouse", "Mumbai Retail",    103310>>,
    <<"Chennai Warehouse", "Delhi",            176765>>,
    <<"Chennai Warehouse", "Thane",            103506>>,
    <<"Chennai Warehouse", "Lonavala",          96745>>,
    <<"Mumbai Retail",     "Delhi",            115324>>,
    <<"Mumbai Retail",     "Thane",              1902>>,
    <<"Mumbai Retail",     "Lonavala",           6609>>,
    <<"Delhi",             "Thane",            113469>>,
    <<"Delhi",             "Lonavala",         116832>>,
    <<"Thane",             "Lonavala",          6844>>,
    <<"Null Island",       "Bangalore Factory", 866387>>,
    <<"Null Island",       "Chennai Warehouse", 895404>>,
    <<"Null Island",       "Mumbai Retail",     821114>>,
    <<"Null Island",       "Delhi",             875213>>,
    <<"Null Island",       "Thane",             822321>>,
    <<"Null Island",       "Lonavala",          826297>> }

\* haversine_distance(lat1, lon1, lat2, lon2): 0 for equal points (a = 0),
\* otherwise the tabulated great-circle distance; symmetric in its points.
haversine_distance(lat1, lon1, lat2, lon2) ==
  IF lat1 = lat2 /\ lon1 = lon2 THEN 0
  ELSE LET leg == CHOOSE l \in GreatCircle :
                    {Coord[l[1]], Coord[l[2]]} = {<<lat1, lon1>>, <<lat2, lon2>>}
       IN  leg[3]

\* ------------------------------------------------------------------ speed
\* A speed in km/h: +infinity, or the quotient num / den with den # 0.
Infinity == [inf |-> TRUE, num |-> 0, den |-> 1]

Quotient(n, d) == [inf |-> FALSE, num |-> n, den |-> d]

\* speed > limit, for a limit in km/h (float comparison, exact here).
SpeedGT(speed, limit) ==
  \/ speed.inf
  \/ ~speed.inf /\ speed.den > 0 /\ speed.num > limit * KmScale * speed.den
  \/ ~speed.inf /\ speed.den < 0 /\ speed.num < limit * KmScale * speed.den

\* speed < limit.
SpeedLT(speed, limit) ==
  /\ ~speed.inf
  /\ \/ speed.den > 0 /\ speed.num < limit * KmScale * speed.den
     \/ speed.den < 0 /\ speed.num > limit * KmScale * speed.den

\* calculate_travel_speed(loc1, loc2, time1, time2): distance over elapsed
\* hours; float('inf') when the elapsed time is zero, whatever the distance.
calculate_travel_speed(loc1, loc2, time1, time2) ==
  LET distance_km == haversine_distance(loc1.lat, loc1.lon, loc2.lat, loc2.lon)
      time_diff   == time2 - time1
  IN  IF time_diff = 0 THEN Infinity
      ELSE Quotient(distance_km * TicksPerHour, time_diff)

\* --------------------------------------------------------- cloning detector
MAX_COMMERCIAL_FLIGHT_SPEED == 900
MAX_GROUND_SPEED == 120
\* "distance > 50" in the UNUSUAL_SPEED branch.
MIN_UNUSUAL_DISTANCE == 50

\* One checkpoint as analyze_drug_safety hands it to the detector.
Event(place, ts) ==
  [location  |-> place,
   latitude  |-> Coord[place][1],
   longitude |-> Coord[place][2],
   event_type |-> "Retail Scan",
   timestamp |-> ts]

\* ClassifyPair with the UNUSUAL_SPEED branch losing its "distance > 50".
ClassifyPairNoDistanceGate(prev_event, curr_event) ==
  LET loc1 == [lat |-> prev_event.latitude, lon |-> prev_event.longitude]
      loc2 == [lat |-> curr_event.latitude, lon |-> curr_event.longitude]
      distance == haversine_distance(loc1.lat, loc1.lon, loc2.lat, loc2.lon)
      speed == calculate_travel_speed(loc1, loc2,
                                      prev_event.timestamp, curr_event.timestamp)
  IN  IF SpeedGT(speed, MAX_COMMERCIAL_FLIGHT_SPEED)
      THEN <<[type |-> "CLONING_SUSPECTED", severity |-> "CRITICAL",
            from_location |-> prev_event.location,
            to_location |-> curr_event.location,
            distance_km |-> distance]>>
      ELSE IF SpeedGT(speed, MAX_GROUND_SPEED)
      THEN <<[type |-> "UNUSUAL_SPEED", severity |-> "MEDIUM",
            from_location |-> prev_event.location,
            to_location |-> curr_event.location,
            distance_km |-> distance]>>
      ELSE <<>>

\* One pass of the detector's loop body for the pair (prev_event,
\* curr_event): the records it appends to anomalies, one or none.
\* The rounded elapsed-hours and speed details of the record are left out.
ClassifyPair(prev_event, curr_event) ==
  LET loc1 == [lat |-> prev_event.latitude, lon |-> prev_event.longitude]
      loc2 == [lat |-> curr_event.latitude, lon |-> curr_event.longitude]
      distance == haversine_distance(loc1.lat, loc1.lon, loc2.lat, loc2.lon)
      speed == calculate_travel_speed(loc1, loc2,
                                      prev_event.timestamp, curr_event.timestamp)
  IN  IF SpeedGT(speed, MAX_COMMERCIAL_FLIGHT_SPEED)
      THEN <<[type |-> "CLONING_SUSPECTED", severity |-> "CRITICAL",
            from_location |-> prev_event.location,
            to_location |-> curr_event.location,
            distance_km |-> distance]>>
      ELSE IF SpeedGT(speed, MAX_GROUND_SPEED)
              /\ distance > MIN_UNUSUAL_DISTANCE * KmScale
      THEN <<[type |-> "UNUSUAL_SPEED", severity |-> "MEDIUM",
            from_location |-> prev_event.location,
            to_location |-> curr_event.location,
            distance_km |-> distance]>>
      ELSE <<>>

RECURSIVE CloningLoop(_, _, _)
\* for i in range(i, len(events)): append the pair's record, if any.
CloningLoop(events, i, anomalies) ==
  IF i > Len(events) THEN anomalies
  ELSE CloningLoop(events, i + 1,
                   anomalies \o ClassifyPair(events[i - 1], events[i]))

\* detect_cloning_attempt(supply_chain_events)
detect_cloning_attempt(supply_chain_events) ==
  IF Len(supply_chain_events) < 2 THEN <<>>
  ELSE CloningLoop(supply_chain_events, 2, <<>>)

\* ------------------------------------------- speed-anomaly severity feature
\* A coordinate passes the extractor's GPS test all([...]) when it is
\* neither missing nor zero.
Truthy(x) == x # NoCoord /\ x # 0

\* a < b for two finite speeds.
SpeedLess(a, b) ==
  IF a.den * b.den > 0 THEN a.num * b.den < b.num * a.den
  ELSE a.num * b.den > b.num * a.den

\* FeatureExtractorV2._calculate_speed_between_events(e1, e2): 0 when the
\* two timestamps are equal, else distance / elapsed hours.
SpeedBetweenEvents(e1, e2) ==
  LET distance_km == haversine_distance(e1.latitude, e1.longitude,
                                        e2.latitude, e2.longitude)
      time_diff   == e2.timestamp - e1.timestamp
  IN  IF time_diff = 0 THEN Quotient(0, 1)
      ELSE Quotient(distance_km * TicksPerHour, time_diff)

RECURSIVE MaxSpeedLoop(_, _, _)
\* The loop of _calculate_speed_severity: max_speed over the pairs whose
\* four coordinates pass the GPS test.
MaxSpeedLoop(events, i, max_speed) ==
  IF i >= Len(events) THEN max_speed
  ELSE LET e1 == events[i]
           e2 == events[i + 1]
       IN  IF ~(Truthy(e1.latitude) /\ Truthy(e1.longitude)
                /\ Truthy(e2.latitude) /\ Truthy(e2.longitude))
           THEN MaxSpeedLoop(events, i + 1, max_speed)
           ELSE LET speed == SpeedBetweenEvents(e1, e2)
                IN  MaxSpeedLoop(events, i + 1,
                                 IF SpeedLess(max_speed, speed) THEN speed
                                 ELSE max_speed)

\* Severity band of a maximum speed, in hundredths (0.3 is 30).
SeverityBand(max_speed) ==
  IF SpeedLT(max_speed, 200) THEN 0
  ELSE IF SpeedLT(max_speed, 500) THEN 30
  ELSE IF SpeedLT(max_speed, 900) THEN 60
  ELSE 100

\* FeatureExtractorV2._calculate_speed_severity(events)
calculate_speed_severity(events) ==
  IF Len(events) < 2 THEN 0
  ELSE SeverityBand(MaxSpeedLoop(events, 1, Quotient(0, 1)))

\* ------------------------------------------------------------------- state
VARIABLES
  drugs,            \* table drugs, in rowid order
  drug_seq,         \* AUTOINCREMENT counter of drugs.id
  batch_seq,        \* batch identifiers handed out so far
  supply_chain,     \* table supply_chain, in rowid order
  failed_attempts,  \* table failed_attempts, in rowid order
  chain,            \* blockchain.chain of the running process
  now,              \* the wall clock, in ticks
  ML_ENABLED,       \* set once when main.py is imported
  response          \* what the last request returned

vars ==
  <<drugs, drug_seq, batch_seq, supply_chain, failed_attempts, chain, now,
    ML_ENABLED, response>>

\* ------------------------------------------------------------ store queries
RECURSIVE InsertByTimestamp(_, _)
\* Insert row after every row of sorted whose timestamp is not later.
InsertByTimestamp(sorted, row) ==
  IF sorted = <<>> THEN <<row>>
  ELSE IF Head(sorted).timestamp <= row.timestamp
       THEN <<Head(sorted)>> \o InsertByTimestamp(Tail(sorted), row)
       ELSE <<row>> \o sorted

RECURSIVE OrderByTimestamp(_)
\* ORDER BY timestamp ASC; rows of equal timestamp stay in rowid order.
OrderByTimestamp(rows) ==
  IF rows = <<>> THEN <<>>
  ELSE InsertByTimestamp(OrderByTimestamp(SubSeq(rows, 1, Len(rows) - 1)),
                         rows[Len(rows)])

\* SELECT ... FROM supply_chain WHERE drug_id = ? ORDER BY timestamp ASC
SupplyChainRows(table, drug_id) ==
  OrderByTimestamp(SelectSeq(table, LAMBDA r : r.drug_id = drug_id))

\* get_drug_by_unique_id(unique_id): the drug row, or None.
get_drug_by_unique_id(unique_id) ==
  IF \E i \in 1..Len(drugs) : drugs[i].unique_id = unique_id
  THEN drugs[CHOOSE i \in 1..Len(drugs) : drugs[i].unique_id = unique_id]
  ELSE None

\* get_supply_chain(drug_id): the history under the key 'place'.
get_supply_chain(drug_id) ==
  LET rows == SupplyChainRows(supply_chain, drug_id)
  IN  [i \in 1..Len(rows) |->
         [place      |-> rows[i].location,
          latitude   |-> rows[i].latitude,
          longitude  |-> rows[i].longitude,
          event_type |-> rows[i].event_type,
          timestamp  |-> rows[i].timestamp]]

\* The events list analyze_drug_safety builds, under the key 'location'.
SafetyEvents(drug_id) ==
  LET rows == SupplyChainRows(supply_chain, drug_id)
  IN  [i \in 1..Len(rows) |->
         [location   |-> rows[i].location,
          latitude   |-> rows[i].latitude,
          longitude  |-> rows[i].longitude,
          event_type |-> rows[i].event_type,
          timestamp  |-> rows[i].timestamp]]

\* log_failed_attempt(scanned_id, attempt_type, reason): the table after the
\* INSERT (ip_address is NULL and the row's own timestamp is left out).
log_failed_attempt(table, scanned_id, attempt_type, reason) ==
  Append(table, [scanned_id   |-> scanned_id,
                 attempt_type |-> attempt_type,
                 reason       |-> reason])

\* ------------------------------------------------------ scan-frequency guard
SUSPICIOUS_THRESHOLD == 10
DEFAULT_TIME_WINDOW_HOURS == 1

\* A count of the recent scans that leaves out WHERE drug_id = ?.
RecentScanCountAllUnits(drug_id, time_window_hours) ==
  Len(SelectSeq(supply_chain,
                LAMBDA r :
                  r.timestamp > now - time_window_hours * TicksPerHour))

\* SELECT COUNT(*) FROM supply_chain WHERE drug_id = ?
\*   AND timestamp > datetime('now', '-' || ? || ' hours')
RecentScanCount(drug_id, time_window_hours) ==
  Len(SelectSeq(supply_chain,
                LAMBDA r : /\ r.drug_id = drug_id
                           /\ r.timestamp > now - time_window_hours * TicksPerHour))

\* check_scan_frequency(drug_id, time_window_hours): the alert, or None.
check_scan_frequency(drug_id, time_window_hours) ==
  LET scan_count == RecentScanCount(drug_id, time_window_hours)
  IN  IF scan_count > SUSPICIOUS_THRESHOLD
      THEN [alert |-> "SUSPICIOUS_SCAN_FREQUENCY",
            severity |-> "HIGH",
            scan_count |-> scan_count,
            time_window_hours |-> time_window_hours]
      ELSE None

\* ------------------------------------------------------------ safety report
\* 'SAFE' if not cloning_anomalies and not scan_frequency_alert else ...
OverallStatus(cloning_anomalies, scan_frequency_alert) ==
  IF cloning_anomalies = <<>> /\ scan_frequency_alert = None
  THEN "SAFE" ELSE "SUSPICIOUS"

\* 'LOW' if nothing fired, 'CRITICAL' if cloning_anomalies, else 'MEDIUM'.
RiskLevel(cloning_anomalies, scan_frequency_alert) ==
  IF cloning_anomalies = <<>> /\ scan_frequency_alert = None THEN "LOW"
  ELSE IF cloning_anomalies # <<>> THEN "CRITICAL"
  ELSE "MEDIUM"

\* analyze_drug_safety(unique_id)
analyze_drug_safety(unique_id) ==
  LET drug == get_drug_by_unique_id(unique_id)
  IN  IF drug = None THEN [error |-> "Drug not found"]
      ELSE LET events == SafetyEvents(drug.id)
               cloning_anomalies == detect_cloning_attempt(events)
               scan_frequency_alert ==
                 check_scan_frequency(drug.id, DEFAULT_TIME_WINDOW_HOURS)
           IN  [unique_id |-> unique_id,
                analysis_timestamp |-> now,
                total_events |-> Len(events),
                cloning_alerts |-> cloning_anomalies,
                scan_frequency_alert |-> scan_frequency_alert,
                overall_status |->
                  OverallStatus(cloning_anomalies, scan_frequency_alert),
                risk_level |->
                  RiskLevel(cloning_anomalies, scan_frequency_alert)]

\* ------------------------------------------------------------ ML classifier
\* What the trained forest answers for one feature vector: either the
\* pipeline inside predict throws (fails), or predict_proba gives the
\* probability of the counterfeit class, in percent; model.predict is the
\* majority class.
ProbChoices == {10, 60, 75, 90}

ForestAnswers ==
  {[fails |-> TRUE, prob_counterfeit |-> 0]}
    \cup {[fails |-> FALSE, prob_counterfeit |-> p] : p \in ProbChoices}

\* Risk level classification of predict, on the confidence in percent.
ConfidenceRiskLevel(confidence) ==
  IF confidence >= 90 THEN "CRITICAL"
  ELSE IF confidence >= 70 THEN "HIGH"
  ELSE IF confidence >= 50 THEN "MEDIUM"
  ELSE "LOW"

\* CounterfeitClassifier.predict: the verdict dict, or the error dict of
\* the except branch, which has no probability and no explanation keys.
Predict(answer) ==
  IF answer.fails
  THEN [is_counterfeit |-> "None",
        confidence     |-> 0,
        risk_level     |-> "UNKNOWN",
        verdict        |-> "ERROR",
        error          |-> "exception text"]
  ELSE LET prob_counterfeit == answer.prob_counterfeit
           prob_authentic   == 100 - answer.prob_counterfeit
           is_counterfeit   == prob_counterfeit > prob_authentic
           confidence == IF is_counterfeit THEN prob_counterfeit
                         ELSE prob_authentic
       IN  [is_counterfeit |-> IF is_counterfeit THEN "True" ELSE "False",
            confidence     |-> confidence,
            probability_authentic   |-> prob_authentic,
            probability_counterfeit |-> prob_counterfeit,
            risk_level     |-> ConfidenceRiskLevel(confidence),
            verdict        |-> IF is_counterfeit THEN "COUNTERFEIT"
                               ELSE "AUTHENTIC",
            explanation    |-> IF is_counterfeit THEN "COUNTERFEIT detected"
                               ELSE "AUTHENTIC"]

\* ml_prediction['is_counterfeit'] and ml_prediction['confidence'] > 0.75
MlFlagsCounterfeit(ml_prediction) ==
  ml_prediction.is_counterfeit = "True" /\ ml_prediction.confidence > 75

\* The keys the authentic response reads from ml_prediction.
AuthenticMlKeys ==
  {"verdict", "confidence", "risk_level",
   "probability_authentic", "probability_counterfeit"}

\* ---------------------------------------------------------------- responses
\* An unhandled exception leaves the handler: the framework answers 500.
Unhandled(op, unique_id, ml_called, anomaly_report) ==
  [op |-> op, unique_id |-> unique_id, http |-> 500, status |-> "none",
   message |-> "Internal Server Error", ml_called |-> ml_called,
   ml_analysis |-> None, anomaly |-> anomaly_report, locations |-> <<>>,
   extra |-> None]

Answer(op, unique_id, status, message, ml_called, ml_analysis, anomaly_report, locations) ==
  [op |-> op, unique_id |-> unique_id, http |-> 200, status |-> status,
   message |-> message, ml_called |-> ml_called,
   ml_analysis |-> ml_analysis, anomaly |-> anomaly_report,
   locations |-> locations, extra |-> None]

\* The locations list of an authentic response (date and time are the two
\* halves of the timestamp, kept together here).
Locations(history) ==
  [i \in 1..Len(history) |->
     [place  |-> history[i].place,
      timestamp |-> history[i].timestamp,
      lat    |-> history[i].latitude,
      lon    |-> history[i].longitude,
      status |-> "verified"]]

\* -------------------------------------------------------------- verify_drug
\* The not-found branch logging under the image path's type.
NotFoundAttemptAsFakeQr(table, unique_id) ==
  log_failed_attempt(table, unique_id, "FAKE_QR_IMAGE",
                     "Drug not found in database - Possible counterfeit")

\* The FailedAttempt row of the not-found branch.
NotFoundAttempt(table, unique_id) ==
  log_failed_attempt(table, unique_id, "INVALID_ID",
                     "Drug not found in database - Possible counterfeit")

\* The ML branch returning without its log_failed_attempt call.
MlAttemptSkipped(table, unique_id) == table

\* The FailedAttempt row of the ML branch.
MlAttempt(table, unique_id) ==
  log_failed_attempt(table, unique_id, "ML_COUNTERFEIT_DETECTED",
                     "Random Forest prediction")

\* The FailedAttempt row of the anomaly branch.
AnomalyAttempt(table, unique_id) ==
  log_failed_attempt(table, unique_id, "ANOMALY_DETECTED",
                     "Impossible travel speed detected")

\* A test that also holds once any failed attempt is on record.
ReportIsCriticalOrLogged(anomaly_report) ==
  \/ failed_attempts # <<>>
  \/ /\ anomaly_report # None
     /\ "risk_level" \in DOMAIN anomaly_report
     /\ anomaly_report.risk_level = "CRITICAL"

\* anomaly_report and anomaly_report.get('risk_level') == 'CRITICAL'
ReportIsCritical(anomaly_report) ==
  /\ anomaly_report # None
  /\ "risk_level" \in DOMAIN anomaly_report
  /\ anomaly_report.risk_level = "CRITICAL"

\* if len(supply_chain) >= 2: anomaly_report = analyze_drug_safety(unique_id)
AnomalyStep(unique_id, history) ==
  IF Len(history) >= 2 THEN analyze_drug_safety(unique_id) ELSE None

\* The tail of verify_drug: the authentic response, whose ml_analysis reads
\* five keys of a truthy ml_prediction (KeyError on the error dict).
AuthenticResponse(unique_id, history, ml_called, ml_prediction, anomaly_report) ==
  IF ml_prediction # None /\ ~(AuthenticMlKeys \subseteq DOMAIN ml_prediction)
  THEN Unhandled("verify_drug", unique_id, ml_called, anomaly_report)
  ELSE Answer("verify_drug", unique_id, "authentic", "", ml_called,
              ml_prediction, anomaly_report, Locations(history))

\* verify_drug from the statement after supply_chain = get_supply_chain(..)
\* on, history being what that read returned: the response and the
\* failed_attempts table it leaves.
VerifyAfterRead(unique_id, history, answer) ==
  LET ml_called == ML_ENABLED
      ml_prediction == IF ml_called THEN Predict(answer) ELSE None
  IN  IF ml_called /\ MlFlagsCounterfeit(ml_prediction)
      THEN [log |-> MlAttempt(failed_attempts, unique_id),
            response |->
              Answer("verify_drug", unique_id, "suspicious",
                     "ML COUNTERFEIT DETECTION", ml_called,
                     ml_prediction, None, <<>>)]
      ELSE
        LET anomaly_report == AnomalyStep(unique_id, history)
        IN  IF ReportIsCritical(anomaly_report)
            THEN [log |-> AnomalyAttempt(failed_attempts, unique_id),
                  response |->
                    Answer("verify_drug", unique_id, "suspicious",
                           "CRITICAL ANOMALY DETECTED", ml_called,
                           None, anomaly_report, <<>>)]
            ELSE [log |-> failed_attempts,
                  response |->
                    AuthenticResponse(unique_id, history, ml_called,
                                      ml_prediction, anomaly_report)]

\* verify_drug(unique_id), the forest answering `answer` if it is asked:
\* the response and the failed_attempts table it leaves.
verify_drug(unique_id, answer) ==
  LET drug == get_drug_by_unique_id(unique_id)
  IN  IF drug = None
      THEN [log |-> NotFoundAttempt(failed_attempts, unique_id),
            response |->
              Answer("verify_drug", unique_id, "fake",
                     "Drug not found in database. Possible counterfeit!",
                     FALSE, None, None, <<>>)]
      ELSE VerifyAfterRead(unique_id, get_supply_chain(drug.id), answer)

\* -------------------------------------------------------- verify_from_image
\* What the upload decodes to: an image cv2 cannot decode (decode raises),
\* an image without a QR code, or a QR code carrying an identifier.
Undecodable == [kind |-> "undecodable"]
NoQr == [kind |-> "no_qr"]
QrOf(unique_id) == [kind |-> "qr", unique_id |-> unique_id]

\* The FailedAttempt row of the image path's not-found branch.
FakeQrAttempt(table, unique_id) ==
  log_failed_attempt(table, unique_id, "FAKE_QR_IMAGE",
                     "Image upload - QR decoded but not in database")

\* The FailedAttempt row of the image path's ML branch.
ImageMlAttempt(table, unique_id) ==
  log_failed_attempt(table, unique_id, "ML_COUNTERFEIT_DETECTED",
                     "Visual + Behavioral analysis")

\* The handler's outer except: any exception becomes an error answer.
ImageError(unique_id, message, ml_called) ==
  Answer("verify_from_image", unique_id, "error", message, ml_called,
         None, None, <<>>)

\* verify_from_image(file): image is what the upload decodes to,
\* packaging what YOLO sees in it (asked only when ML is enabled).
verify_from_image(image, packaging, answer) ==
  LET yolo_present == ML_ENABLED /\ packaging
  IN
  IF image.kind = "undecodable"
  THEN [log |-> failed_attempts,
        response |-> ImageError(None, "Could not process image", FALSE)]
  ELSE IF image.kind = "no_qr"
  THEN [log |-> failed_attempts,
        response |->
          ImageError(None,
                     IF yolo_present
                     THEN "Medicine packaging detected but QR code not readable"
                     ELSE "No QR code detected in image", FALSE)]
  ELSE
    LET unique_id == image.unique_id
        drug == get_drug_by_unique_id(unique_id)
    IN  IF drug = None
        THEN [log |-> FakeQrAttempt(failed_attempts, unique_id),
              response |->
                Answer("verify_from_image", unique_id, "fake",
                       "Invalid QR Code", FALSE, None, None, <<>>)]
        ELSE
          LET history == get_supply_chain(drug.id)
              ml_called == ML_ENABLED
              ml_prediction == IF ml_called THEN Predict(answer) ELSE None
          IN  IF ml_called /\ MlFlagsCounterfeit(ml_prediction)
              THEN [log |-> ImageMlAttempt(failed_attempts, unique_id),
                    response |->
                      Answer("verify_from_image", unique_id, "suspicious",
                             "COUNTERFEIT DETECTED (ML Analysis)", ml_called,
                             ml_prediction, None, <<>>)]
              ELSE IF ml_prediction # None
                      /\ ~(AuthenticMlKeys \subseteq DOMAIN ml_prediction)
              THEN [log |-> failed_attempts,
                    response |->
                      ImageError(unique_id, "Could not process image",
                                 ml_called)]
              ELSE [log |-> failed_attempts,
                    response |->
                      Answer("verify_from_image", unique_id, "authentic", "",
                             ml_called, ml_prediction, None,
                             Locations(history))]

\* -------------------------------------------------------- analyze_anomalies
RECURSIVE SuspiciousTransitions(_, _)
\* The detailed breakdown of analyze_anomalies: the transitions from the
\* i-th on whose speed (0 when no time elapsed) exceeds 900 km/h.
SuspiciousTransitions(history, i) ==
  IF i >= Len(history) THEN 0
  ELSE LET distance == haversine_distance(
                         history[i].latitude, history[i].longitude,
                         history[i + 1].latitude, history[i + 1].longitude)
           time_diff == history[i + 1].timestamp - history[i].timestamp
           speed == IF time_diff > 0
                    THEN Quotient(distance * TicksPerHour, time_diff)
                    ELSE Quotient(0, 1)
       IN  (IF SpeedGT(speed, 900) THEN 1 ELSE 0)
             + SuspiciousTransitions(history, i + 1)

\* analyze_anomalies(unique_id): reads the store, writes nothing.
analyze_anomalies(unique_id) ==
  LET drug == get_drug_by_unique_id(unique_id)
  IN  IF drug = None
      THEN [Answer("analyze_anomalies", unique_id, "none", "Drug not found",
                   FALSE, None, None, <<>>) EXCEPT !.http = 404]
      ELSE LET history == get_supply_chain(drug.id)
           IN  IF Len(history) < 2
               THEN Answer("analyze_anomalies", unique_id, "insufficient_data",
                           "Need at least 2 supply chain events for analysis",
                           FALSE, None, None, <<>>)
               ELSE [Answer("analyze_anomalies", unique_id, "ok", "", FALSE,
                            None, analyze_drug_safety(unique_id), <<>>)
                       EXCEPT !.extra =
                         [total_events |-> Len(history),
                          suspicious_transitions |->
                            SuspiciousTransitions(history, 1)]]

\* ------------------------------------------------------------------ ledger
\* SHA-256 of the block's JSON, taken to be collision free: the digest
\* stands for exactly the four hashed fields.
calculate_hash(index, timestamp, data, previous_hash) ==
  <<"sha256", index, timestamp, data, previous_hash>>

\* Block(index, timestamp, data, previous_hash)
Block(index, timestamp, data, previous_hash) ==
  [index |-> index, timestamp |-> timestamp, data |-> data,
   previous_hash |-> previous_hash,
   hash |-> calculate_hash(index, timestamp, data, previous_hash)]

\* Blockchain._create_genesis_block()
create_genesis_block(timestamp) ==
  Block(0, timestamp, [event |-> "Genesis Block"], <<"0x000000">>)

\* add_block linking the new block to the first block instead of the last.
add_block_linked_to_first(blocks, timestamp, drug_id, event_type, location) ==
  LET previous_block == IF blocks = <<>> THEN None ELSE blocks[1]
  IN  Append(blocks,
             Block(Len(blocks), timestamp,
                   [drug_id |-> drug_id, event_type |-> event_type,
                    location |-> location],
                   IF previous_block # None THEN previous_block.hash
                   ELSE <<"0x000000">>))

\* Blockchain.add_block(drug_id, event_type, location): the chain after it.
add_block(blocks, timestamp, drug_id, event_type, location) ==
  LET previous_block == IF blocks = <<>> THEN None ELSE blocks[Len(blocks)]
  IN  Append(blocks,
             Block(Len(blocks), timestamp,
                   [drug_id |-> drug_id, event_type |-> event_type,
                    location |-> location],
                   IF previous_block # None THEN previous_block.hash
                   ELSE <<"0x000000">>))

\* Blockchain.verify_chain(): a chain of fewer than two blocks is valid;
\* otherwise every block from the second on must carry the hash of its own
\* contents and the hash of the block before it.
verify_chain(blocks) ==
  IF Len(blocks) < 2 THEN TRUE
  ELSE \A i \in 2..Len(blocks) :
         /\ blocks[i].hash = calculate_hash(blocks[i].index,
                                            blocks[i].timestamp,
                                            blocks[i].data,
                                            blocks[i].previous_hash)
         /\ blocks[i].previous_hash = blocks[i - 1].hash

\* ------------------------------------------------------------ store writes
\* An INSERT that replaces the unit's earlier rows instead of adding to them.
add_supply_chain_event_replacing(table, drug_id, location, event_type) ==
  Append(SelectSeq(table, LAMBDA r : r.drug_id # drug_id),
         [drug_id    |-> drug_id,
          location   |-> location,
          latitude   |-> Coord[location][1],
          longitude  |-> Coord[location][2],
          event_type |-> event_type,
          timestamp  |-> now])

\* add_supply_chain_event(drug_id, location, lat, lon, event_type): the
\* table after the INSERT, the row stamped CURRENT_TIMESTAMP.
add_supply_chain_event(table, drug_id, location, event_type) ==
  Append(table, [drug_id    |-> drug_id,
                 location   |-> location,
                 latitude   |-> Coord[location][1],
                 longitude  |-> Coord[location][2],
                 event_type |-> event_type,
                 timestamp  |-> now])

\* save_drug_enhanced(...): the drugs table after the INSERT; the new id is
\* one more than the largest id the table ever held.
save_drug_enhanced(table, seq, drug_name, batch_id, unique_id) ==
  Append(table, [id |-> seq + 1, drug_name |-> drug_name,
                 batch_id |-> batch_id, unique_id |-> unique_id])

\* str(uuid.uuid4())[:8].upper(): the n-th identifier handed out.
BatchId(n) == [tag |-> "UUID", n |-> n]
SeedBatchId == [tag |-> "SEED", n |-> 1]
UniqueId(batch_id, i) == [batch_id |-> batch_id, unit |-> i]
\* An identifier no batch was ever given.
UnknownId == UniqueId(BatchId(0), 1)

\* ----------------------------------------------------------- generate_batch
MAX_BATCH_QUANTITY == 50

\* The three checkpoints every generated unit starts with.
FactoryRoute ==
  << [location |-> "Bangalore Factory", event_type |-> "Production Complete"],
     [location |-> "Chennai Warehouse", event_type |-> "Quality Check"],
     [location |-> "Mumbai Retail",     event_type |-> "Warehouse Receipt"] >>

RECURSIVE RouteEvents(_, _, _)
\* The supply_chain table after the route's checkpoints from the k-th on.
RouteEvents(table, drug_id, k) ==
  IF k > Len(FactoryRoute) THEN table
  ELSE RouteEvents(add_supply_chain_event(table, drug_id,
                                          FactoryRoute[k].location,
                                          FactoryRoute[k].event_type),
                   drug_id, k + 1)

RECURSIVE RouteBlocks(_, _, _)
\* The chain after the route's blocks from the k-th on.
RouteBlocks(blocks, drug_id, k) ==
  IF k > Len(FactoryRoute) THEN blocks
  ELSE RouteBlocks(add_block(blocks, now, drug_id,
                             FactoryRoute[k].event_type,
                             FactoryRoute[k].location),
                   drug_id, k + 1)

RECURSIVE BatchLoop(_, _, _, _, _)
\* for i in range(quantity), from the i-th unit on: the store after it.
BatchLoop(st, drug_name, batch_id, quantity, i) ==
  IF i > quantity THEN st
  ELSE BatchLoop(
         [drugs |-> save_drug_enhanced(st.drugs, st.drug_seq, drug_name,
                                       batch_id, UniqueId(batch_id, i)),
          drug_seq |-> st.drug_seq + 1,
          supply_chain |-> RouteEvents(st.supply_chain, st.drug_seq + 1, 1),
          chain |-> RouteBlocks(st.chain, st.drug_seq + 1, 1)],
         drug_name, batch_id, quantity, i + 1)

\* generate_batch(request): the store it leaves and its response.
generate_batch(drug_name, quantity) ==
  IF quantity > MAX_BATCH_QUANTITY
  THEN [store |-> [drugs |-> drugs, drug_seq |-> drug_seq,
                   supply_chain |-> supply_chain, chain |-> chain],
        batches |-> batch_seq,
        response |->
          [Answer("generate_batch", None, "none",
                  "Maximum 50 units per batch", FALSE, None, None, <<>>)
             EXCEPT !.http = 400]]
  ELSE LET batch_id == BatchId(batch_seq + 1)
       IN  [store |-> BatchLoop([drugs |-> drugs, drug_seq |-> drug_seq,
                                 supply_chain |-> supply_chain,
                                 chain |-> chain],
                                drug_name, batch_id, quantity, 1),
            batches |-> batch_seq + 1,
            response |->
              [Answer("generate_batch", None, "Success", "", FALSE, None,
                      None, <<>>)
                 EXCEPT !.extra = [batch_id |-> batch_id,
                                   quantity |-> quantity,
                                   blockchain_blocks_added |-> quantity * 3]]]

\* ----------------------------------------------------------- clean_database
DRUG_NAME_TO_KEEP == "Augmentin 625 Duo"

\* ids_to_keep of clean_database.
IdsToKeep ==
  {drugs[i].id : i \in {j \in 1..Len(drugs) :
                          drugs[j].drug_name = DRUG_NAME_TO_KEEP}}

\* -------------------------------------------------------------------- Init
NoResponse ==
  Answer("none", None, "none", "", FALSE, None, None, <<>>)

RECURSIVE SeedLoop(_, _)
\* seed_sample_data, bounded to one batch of SeedUnits units: each unit is
\* saved and given the three route checkpoints, all stamped now.
SeedLoop(st, i) ==
  IF i > SeedUnits THEN st
  ELSE SeedLoop(
         [drugs |-> save_drug_enhanced(st.drugs, st.drug_seq, "Dolo 650",
                                       SeedBatchId, UniqueId(SeedBatchId, i)),
          drug_seq |-> st.drug_seq + 1,
          supply_chain |-> RouteEvents(st.supply_chain, st.drug_seq + 1, 1)],
         i + 1)

\* A first start: init_db, the seeding of the empty database, the genesis
\* block, and the import of the ML models, which succeeds or not.
Init ==
  /\ now = 0
  /\ LET seeded == SeedLoop([drugs |-> <<>>, drug_seq |-> 0,
                             supply_chain |-> <<>>], 1)
     IN  /\ drugs = seeded.drugs
         /\ drug_seq = seeded.drug_seq
         /\ supply_chain = seeded.supply_chain
  /\ batch_seq = 0
  /\ failed_attempts = <<>>
  /\ chain = <<create_genesis_block(0)>>
  /\ ML_ENABLED \in BOOLEAN
  /\ response = NoResponse

\* ------------------------------------------------------------------ actions
\* Identifiers a client may scan: every registered one and an unknown one.
ScanIds == {drugs[i].unique_id : i \in 1..Len(drugs)} \cup {UnknownId}

DrugNames == {"Augmentin 625 Duo", "Dolo 650"}
QuantityChoices == {-1, 0, 1, 2, 51}
ScanPlaces == {"Delhi"}

\* Time passes.
Tick ==
  /\ now < MaxTime
  /\ now' = now + 1
  /\ UNCHANGED <<drugs, drug_seq, batch_seq, supply_chain, failed_attempts,
                 chain, ML_ENABLED, response>>

\* POST /generate-batch
GenerateBatch(drug_name, quantity) ==
  /\ batch_seq < MaxBatches
  /\ quantity <= MAX_BATCH_QUANTITY => drug_seq + quantity <= MaxUnits
  /\ LET out == generate_batch(drug_name, quantity)
     IN  /\ drugs' = out.store.drugs
         /\ drug_seq' = out.store.drug_seq
         /\ supply_chain' = out.store.supply_chain
         /\ chain' = out.store.chain
         /\ batch_seq' = out.batches
         /\ response' = out.response
  /\ UNCHANGED <<failed_attempts, now, ML_ENABLED>>

\* A unit registered on its own, as the scenario scripts do
\* (save_drug_enhanced without checkpoints).
SaveDrug(drug_name) ==
  /\ batch_seq < MaxBatches
  /\ drug_seq < MaxUnits
  /\ drugs' = save_drug_enhanced(drugs, drug_seq, drug_name,
                                 BatchId(batch_seq + 1),
                                 UniqueId(BatchId(batch_seq + 1), 1))
  /\ drug_seq' = drug_seq + 1
  /\ batch_seq' = batch_seq + 1
  /\ UNCHANGED <<supply_chain, failed_attempts, chain, now, ML_ENABLED,
                 response>>

\* A scan of a unit at a place (add_supply_chain_event).
AddCheckpoint(drug_id, place) ==
  /\ Len(SupplyChainRows(supply_chain, drug_id)) < MaxEvents
  /\ supply_chain' = add_supply_chain_event(supply_chain, drug_id, place,
                                            "Retail Scan")
  /\ UNCHANGED <<drugs, drug_seq, batch_seq, failed_attempts, chain, now,
                 ML_ENABLED, response>>

\* GET /verify/{unique_id}
VerifyDrug(unique_id, answer) ==
  /\ Len(failed_attempts) < MaxLog
  /\ LET out == verify_drug(unique_id, answer)
     IN  /\ failed_attempts' = out.log
         /\ response' = out.response
  /\ UNCHANGED <<drugs, drug_seq, batch_seq, supply_chain, chain, now,
                 ML_ENABLED>>

\* POST /verify-image
VerifyFromImage(image, packaging, answer) ==
  /\ Len(failed_attempts) < MaxLog
  /\ LET out == verify_from_image(image, packaging, answer)
     IN  /\ failed_attempts' = out.log
         /\ response' = out.response
  /\ UNCHANGED <<drugs, drug_seq, batch_seq, supply_chain, chain, now,
                 ML_ENABLED>>

\* GET /anomaly/analyze/{unique_id}
AnalyzeAnomalies(unique_id) ==
  /\ response' = analyze_anomalies(unique_id)
  /\ UNCHANGED <<drugs, drug_seq, batch_seq, supply_chain, failed_attempts,
                 chain, now, ML_ENABLED>>

\* clean_database with a further DELETE FROM failed_attempts.
CleanDatabaseWithLog ==
  /\ IF IdsToKeep = {}
     THEN UNCHANGED <<drugs, supply_chain>>
     ELSE /\ supply_chain' =
               SelectSeq(supply_chain, LAMBDA r : r.drug_id \in IdsToKeep)
          /\ drugs' = SelectSeq(drugs, LAMBDA d : d.id \in IdsToKeep)
  /\ failed_attempts' = <<>>
  /\ UNCHANGED <<drug_seq, batch_seq, chain, now, ML_ENABLED, response>>

\* clean_fake_data.clean_database(): nothing is deleted when no unit of the
\* kept name exists; otherwise every other drug and its checkpoints go (the
\* ledger table is never written and stays empty).
CleanDatabase ==
  /\ IF IdsToKeep = {}
     THEN UNCHANGED <<drugs, supply_chain>>
     ELSE /\ supply_chain' =
               SelectSeq(supply_chain, LAMBDA r : r.drug_id \in IdsToKeep)
          /\ drugs' = SelectSeq(drugs, LAMBDA d : d.id \in IdsToKeep)
  /\ UNCHANGED <<drug_seq, batch_seq, failed_attempts, chain, now,
                 ML_ENABLED, response>>

Next ==
  \/ Tick
  \/ \E n \in DrugNames, q \in QuantityChoices : GenerateBatch(n, q)
  \/ SaveDrug("Cloned Drug")
  \/ \E i \in 1..Len(drugs), p \in ScanPlaces : AddCheckpoint(drugs[i].id, p)
  \/ \E u \in ScanIds, a \in ForestAnswers : VerifyDrug(u, a)
  \/ \E u \in ScanIds, a \in ForestAnswers :
       VerifyFromImage(QrOf(u), TRUE, a)
  \/ \E k \in BOOLEAN, a \in ForestAnswers :
       VerifyFromImage(NoQr, k, a)
  \/ \E a \in ForestAnswers : VerifyFromImage(Undecodable, FALSE, a)
  \/ \E u \in ScanIds : AnalyzeAnomalies(u)
  \/ CleanDatabase

Spec == Init /\ [][Next]_vars

\* ---------------------------------------------------- feature extraction
\* A dict key that is not there, and a value v that is.
Absent == [absent |-> TRUE]
Val(v) == [value |-> v]

\* dict.get(key, default): the default only when the key is absent; a key
\* present with None gives None.
Get(field, default) == IF field = Absent THEN Val(default) ELSE field

\* A score that is a quotient of two counts: num / den.
Fraction(n, d) == [num |-> n, den |-> d]

\* The wall clock at tick 0: a Monday (weekday 0), 08:50.
Epoch == [weekday |-> 0, hour |-> 8, minute |-> 50]

\* Minutes since the Monday 00:00 before the epoch, of a timestamp.
MinuteOf(ts) ==
  (Epoch.weekday * 24 + Epoch.hour) * 60 + Epoch.minute
    + ts * (60 \div TicksPerHour)

\* datetime.hour and datetime.weekday() of a timestamp.
HourOf(ts) == (MinuteOf(ts) \div 60) % 24
WeekdayOf(ts) == (MinuteOf(ts) \div (24 * 60)) % 7

\* timedelta.days of the difference of two timestamps (t2 >= t1).
DaysBetween(t1, t2) == (t2 - t1) \div (24 * TicksPerHour)

\* The ten feature names, FEATURE_NAMES_V2.
FEATURE_NAMES_V2 ==
  {"scan_frequency_score", "unique_locations_ratio",
   "supply_chain_completeness", "license_validity_score",
   "price_deviation_score", "temporal_consistency_score",
   "geofence_compliance_score", "speed_anomaly_severity",
   "batch_health_score", "historical_pattern_score"}

\* Set of the timestamps of a list of events.
Timestamps(events) == {events[i].timestamp : i \in 1..Len(events)}
MaxOf(S) == CHOOSE x \in S : \A y \in S : y <= x
MinOf(S) == CHOOSE x \in S : \A y \in S : x <= y

\* FeatureExtractorV2._calculate_scan_frequency(events), in hundredths.
calculate_scan_frequency(events) ==
  IF Len(events) < 2 THEN 100
  ELSE LET span == DaysBetween(MinOf(Timestamps(events)),
                               MaxOf(Timestamps(events))) + 1
           days_elapsed == IF span > 1 THEN span ELSE 1
       IN  IF 2 * Len(events) <= days_elapsed THEN 100
           ELSE IF Len(events) <= 2 * days_elapsed THEN 70
           ELSE IF Len(events) <= 5 * days_elapsed THEN 30
           ELSE 0

\* round(x, 3) of a coordinate kept in 1/10000 degree.
RoundCoord(c) == (c + 5) \div 10

\* FeatureExtractorV2._calculate_unique_locations(events): the events whose
\* latitude and longitude are both not None give the coordinates; the ratio
\* is taken over all events.
calculate_unique_locations(events) ==
  IF Len(events) = 0 THEN Fraction(1, 1)
  ELSE LET unique_coords ==
             {<<RoundCoord(events[i].latitude),
                RoundCoord(events[i].longitude)>> :
                i \in {j \in 1..Len(events) :
                         /\ events[j].latitude # NoCoord
                         /\ events[j].longitude # NoCoord}}
       IN  IF Cardinality(unique_coords) = 0 THEN Fraction(1, 1)
           ELSE Fraction(Cardinality(unique_coords), Len(events))

\* required_events of _calculate_completeness.
required_events ==
  {"Factory Production", "Warehouse Receipt", "Retail Distribution"}

\* FeatureExtractorV2._calculate_completeness(events): matched stages over
\* the three required ones, "Production Complete" standing in for
\* "Factory Production".
calculate_completeness(events) ==
  LET present_events == {events[i].event_type : i \in 1..Len(events)}
      matched == {req \in required_events :
                    \/ req \in present_events
                    \/ /\ req = "Factory Production"
                       /\ "Production Complete" \in present_events}
  IN  Fraction(Cardinality(matched), Cardinality(required_events))

\* What the two tests of _calculate_license_score find in the license
\* numbers the extraction is asked about: a digit (re.search r'\d'), a '/'
\* or a '-'.
HasDigit(license_num) ==
  license_num \in {"20B/UA/2018", "XX-9999-999999", "12345"}
HasSeparator(license_num) ==
  license_num \in {"20B/UA/2018", "XX-9999-999999", "N/A"}

\* A scorer's outcome when it raises instead of returning.
Raises(exception) == [raises |-> exception]
IsRaise(x) == "raises" \in DOMAIN x

\* FeatureExtractorV2._calculate_license_score(drug_data), in hundredths
\* inside Val; re.search on None raises TypeError.
calculate_license_score(drug_data) ==
  LET license_num == Get(drug_data.license_number, "")
  IN  IF license_num = None THEN Raises("TypeError")
      ELSE IF HasDigit(license_num.value) /\ HasSeparator(license_num.value)
           THEN Val(100)
           ELSE Val(0)

\* market_prices, in half rupees (30.5 is 61).
market_prices ==
  [name \in {"Dolo 650", "Azithral 500", "Crocin Advance", "Amoxyclav 625",
             "Pantoprazole 40", "Cetirizine 10", "Combiflam"} |->
     CASE name = "Dolo 650"        -> 61
       [] name = "Azithral 500"    -> 250
       [] name = "Crocin Advance"  -> 56
       [] name = "Amoxyclav 625"   -> 360
       [] name = "Pantoprazole 40" -> 191
       [] name = "Cetirizine 10"   -> 84
       [] name = "Combiflam"       -> 70]

Abs(x) == IF x < 0 THEN 0 - x ELSE x

\* deviation <= tenths / 10 for deviation = abs(mrp - avg_price) / avg_price
\* (a negative avg_price makes the deviation negative or -0.0).
DeviationWithin(mrp, avg_price, tenths) ==
  IF avg_price > 0 THEN 10 * Abs(mrp - avg_price) <= tenths * avg_price
  ELSE TRUE

\* A price scorer that returns 1 - deviation instead of a band.
calculate_price_deviation_linear(drug_data) ==
  LET mrp == Get(drug_data.mrp, 0)
      drug_name == Get(drug_data.drug_name, "")
      avg_price == IF drug_name.value \in DOMAIN market_prices
                   THEN Val(market_prices[drug_name.value])
                   ELSE mrp
  IN  IF avg_price # None /\ avg_price.value = 0 THEN Val(100)
      ELSE IF mrp = None THEN Raises("TypeError")
      ELSE Val(100 - (100 * Abs(mrp.value - avg_price.value))
                       \div avg_price.value)

\* FeatureExtractorV2._calculate_price_deviation(drug_data), in hundredths
\* inside Val; arithmetic on a None mrp raises TypeError.
calculate_price_deviation(drug_data) ==
  LET mrp == Get(drug_data.mrp, 0)
      drug_name == Get(drug_data.drug_name, "")
      avg_price == IF drug_name.value \in DOMAIN market_prices
                   THEN Val(market_prices[drug_name.value])
                   ELSE mrp
  IN  IF avg_price # None /\ avg_price.value = 0 THEN Val(100)
      ELSE IF mrp = None THEN Raises("TypeError")
      ELSE IF DeviationWithin(mrp.value, avg_price.value, 1) THEN Val(100)
      ELSE IF DeviationWithin(mrp.value, avg_price.value, 3) THEN Val(70)
      ELSE IF DeviationWithin(mrp.value, avg_price.value, 5) THEN Val(30)
      ELSE Val(0)

\* route_times: expected truck hours between two cities.
route_times ==
  [key \in {<<"Mumbai", "Delhi">>, <<"Delhi", "Bangalore">>,
            <<"Mumbai", "Bangalore">>, <<"Chennai", "Delhi">>} |->
     CASE key = <<"Mumbai", "Delhi">>     -> 24
       [] key = <<"Delhi", "Bangalore">>  -> 36
       [] key = <<"Mumbai", "Bangalore">> -> 20
       [] key = <<"Chennai", "Delhi">>    -> 40]

\* The default of _get_expected_travel_time, in hours.
DEFAULT_ROUTE_HOURS == 24

\* FeatureExtractorV2._get_expected_travel_time(loc1, loc2)
get_expected_travel_time(loc1, loc2) ==
  IF <<loc1, loc2>> \in DOMAIN route_times THEN route_times[<<loc1, loc2>>]
  ELSE IF <<loc2, loc1>> \in DOMAIN route_times
       THEN route_times[<<loc2, loc1>>]
       ELSE DEFAULT_ROUTE_HOURS

\* The score _calculate_temporal_consistency gives one adjacent pair, in
\* hundredths; ratio = actual_hours / expected_hours, the branches in the
\* order of the code.
PairConsistency(e1, e2) ==
  LET expected_hours == get_expected_travel_time(e1.location, e2.location)
      actual_ticks   == e2.timestamp - e1.timestamp
      expected_ticks == expected_hours * TicksPerHour
  IN  IF expected_hours = 0 THEN 100
      ELSE IF /\ expected_ticks <= 2 * actual_ticks
              /\ actual_ticks <= 2 * expected_ticks THEN 100
      ELSE IF actual_ticks <= 3 * expected_ticks THEN 70
      ELSE IF 10 * actual_ticks < 3 * expected_ticks THEN 30
      ELSE 50

RECURSIVE SumConsistency(_, _)
\* The sum of the pair scores from the i-th pair on.
SumConsistency(events, i) ==
  IF i >= Len(events) THEN 0
  ELSE PairConsistency(events[i], events[i + 1])
         + SumConsistency(events, i + 1)

\* FeatureExtractorV2._calculate_temporal_consistency(events): the mean of
\* the pair scores.
calculate_temporal_consistency(events) ==
  IF Len(events) < 2 THEN Fraction(1, 1)
  ELSE Fraction(SumConsistency(events, 1), 100 * (Len(events) - 1))

\* expected_regions, and the ones a location name contains.
expected_regions ==
  {"Maharashtra", "Delhi", "Karnataka", "Tamil Nadu", "Gujarat",
   "Andhra Pradesh", "Mumbai", "Bangalore", "Chennai", "Ahmedabad",
   "Hyderabad"}
RegionsNamedIn(location) ==
  CASE location = "Bangalore Factory" -> {"Bangalore"}
    [] location = "Chennai Warehouse" -> {"Chennai"}
    [] location = "Mumbai Retail"     -> {"Mumbai"}
    [] location = "Delhi"             -> {"Delhi"}
    [] OTHER                          -> {}

\* FeatureExtractorV2._calculate_geofence_compliance(events)
calculate_geofence_compliance(events) ==
  IF Len(events) = 0 THEN Fraction(1, 1)
  ELSE Fraction(Cardinality({i \in 1..Len(events) :
                   RegionsNamedIn(events[i].location) \cap expected_regions
                     # {}}),
                Len(events))

\* The empty string where a batch identifier is expected.
EmptyBatchId == [tag |-> "", n |-> 0]

\* get_drugs_by_batch(batch_id): the identifiers of the batch's units.
get_drugs_by_batch(batch_id) ==
  {drugs[i].unique_id : i \in {j \in 1..Len(drugs) :
                                 drugs[j].batch_id = batch_id}}

\* has_failed_attempts(unique_id): a failed attempt is on record for it.
has_failed_attempts(unique_id) ==
  \E i \in 1..Len(failed_attempts) :
    failed_attempts[i].scanned_id = unique_id

\* The batch-health score with one deduction per failed-attempt row.
calculate_batch_health_per_row(batch_id) ==
  IF batch_id = Val(EmptyBatchId) THEN Fraction(1, 1)
  ELSE LET batch_drugs == get_drugs_by_batch(batch_id.value)
           rows == {i \in 1..Len(failed_attempts) :
                      failed_attempts[i].scanned_id \in batch_drugs}
       IN  IF Cardinality(batch_drugs) <= 1 THEN Fraction(1, 1)
           ELSE Fraction(Cardinality(batch_drugs) - Cardinality(rows),
                         Cardinality(batch_drugs))

\* The batch-health score taken as the flagged share itself.
calculate_batch_health_flagged_share(batch_id) ==
  IF batch_id = Val(EmptyBatchId) THEN Fraction(1, 1)
  ELSE LET batch_drugs == get_drugs_by_batch(batch_id.value)
           flagged == {d \in batch_drugs : has_failed_attempts(d)}
       IN  IF Cardinality(batch_drugs) <= 1 THEN Fraction(1, 1)
           ELSE Fraction(Cardinality(flagged), Cardinality(batch_drugs))

\* FeatureExtractorV2._calculate_batch_health(batch_id): the share of the
\* batch's units without a failed attempt.
calculate_batch_health(batch_id) ==
  IF batch_id = Val(EmptyBatchId) THEN Fraction(1, 1)
  ELSE LET batch_drugs == get_drugs_by_batch(batch_id.value)
           flagged == {d \in batch_drugs : has_failed_attempts(d)}
       IN  IF Cardinality(batch_drugs) <= 1 THEN Fraction(1, 1)
           ELSE Fraction(Cardinality(batch_drugs) - Cardinality(flagged),
                         Cardinality(batch_drugs))

\* is_business_hours of _calculate_temporal_pattern.
IsBusinessHours(ts) ==
  \/ WeekdayOf(ts) < 5 /\ 9 <= HourOf(ts) /\ HourOf(ts) <= 18
  \/ WeekdayOf(ts) = 5 /\ 9 <= HourOf(ts) /\ HourOf(ts) <= 13

\* FeatureExtractorV2._calculate_temporal_pattern(events), in hundredths.
calculate_temporal_pattern(events) ==
  IF Len(events) = 0 THEN 100
  ELSE LET business_hour_scans ==
             Cardinality({i \in 1..Len(events) :
                            IsBusinessHours(events[i].timestamp)})
       IN  IF 10 * business_hour_scans >= 8 * Len(events) THEN 100
           ELSE IF 2 * business_hour_scans >= Len(events) THEN 70
           ELSE 30

\* FeatureExtractorV2.extract_features(drug_data, supply_chain_events): the
\* features dict, or the exception of the first scorer that raises.
extract_features(drug_data, supply_chain_events) ==
  LET license == calculate_license_score(drug_data)
      price   == calculate_price_deviation(drug_data)
  IN  IF IsRaise(license) THEN license
      ELSE IF IsRaise(price) THEN price
      ELSE [scan_frequency_score |->
              calculate_scan_frequency(supply_chain_events),
            unique_locations_ratio |->
              calculate_unique_locations(supply_chain_events),
            supply_chain_completeness |->
              calculate_completeness(supply_chain_events),
            license_validity_score |-> license.value,
            price_deviation_score |-> price.value,
            temporal_consistency_score |->
              calculate_temporal_consistency(supply_chain_events),
            geofence_compliance_score |->
              calculate_geofence_compliance(supply_chain_events),
            speed_anomaly_severity |->
              calculate_speed_severity(supply_chain_events),
            batch_health_score |->
              calculate_batch_health(Get(drug_data.batch_id, EmptyBatchId)),
            historical_pattern_score |->
              calculate_temporal_pattern(supply_chain_events)]

\* get_drug_data_for_ml(unique_id): the unit's name and batch from its row,
\* its license number and price as the request finds them.
get_drug_data_for_ml(unique_id, metadata) ==
  [drug_name      |-> Val(get_drug_by_unique_id(unique_id).drug_name),
   batch_id       |-> Val(get_drug_by_unique_id(unique_id).batch_id),
   license_number |-> metadata.license_number,
   mrp            |-> metadata.mrp]

\* The license and price of the seeded units.
SeedMetadata == [license_number |-> Val("20B/UA/2018"), mrp |-> Val(60)]

\* The scenario scripts' step: fetch the unit's data and events, extract
\* its features; an exception ends the script with a traceback.
ExtractFeatures(unique_id, metadata) ==
  /\ get_drug_by_unique_id(unique_id) # None
  /\ LET features ==
           extract_features(
             get_drug_data_for_ml(unique_id, metadata),
             SafetyEvents(get_drug_by_unique_id(unique_id).id))
     IN  response' =
           IF IsRaise(features)
           THEN Answer("extract_features", unique_id, "raised",
                       features.raises, FALSE, None, None, <<>>)
           ELSE [Answer("extract_features", unique_id, "ok", "", FALSE,
                        None, None, <<>>)
                   EXCEPT !.extra = features]
  /\ UNCHANGED <<drugs, drug_seq, batch_seq, supply_chain, failed_attempts,
                 chain, now, ML_ENABLED>>

\* ------------------------------------------- requests over a persisted store
\* Places the drawn series visit: a retail point, a short hop from it
\* (19 km), a hop of more than 50 km (66 km) and a far city (1153 km).
SeriesPlaces == {"Mumbai Retail", "Thane", "Lonavala", "Delhi"}

\* One persisted checkpoint of the unit with id 1, as the scenario scripts
\* leave it (add_supply_chain_event, then UPDATE ... SET timestamp).
SeriesRow(place, ts) ==
  [drug_id    |-> 1,
   location   |-> place,
   latitude   |-> Coord[place][1],
   longitude  |-> Coord[place][2],
   event_type |-> "Retail Scan",
   timestamp  |-> ts]

\* Every supply_chain table of at most MaxSeriesLen such rows, in any
\* rowid order.
DrawnSeries ==
  UNION {[1..n -> {SeriesRow(p, t) : p \in SeriesPlaces,
                                     t \in 0..MaxSeriesTime}] :
           n \in 0..MaxSeriesLen}

\* k scans of the unit at one retail point, per_tick of them every tick.
BurstSeries(k, per_tick) ==
  [j \in 1..k |-> SeriesRow("Mumbai Retail", (j - 1) \div per_tick)]

\* k scans at one retail point, one every tick, the first `other` of them
\* of a second unit (drug id 2) and the rest of the unit with id 1.
SharedBurst(k, other) ==
  [j \in 1..k |->
     [SeriesRow("Mumbai Retail", j - 1)
        EXCEPT !.drug_id = IF j <= other THEN 2 ELSE 1]]

\* The persisted stores a process may start on: the table, the clock and
\* the number of registered units.
DrawnStores ==
  {[rows |-> rows, clock |-> MaxSeriesTime, units |-> 1] :
     rows \in DrawnSeries}
    \cup {[rows |-> BurstSeries(k, per_tick),
           clock |-> ((k - 1) \div per_tick) + lag, units |-> 1] :
             k \in (MaxBurst - 2)..MaxBurst, per_tick \in {1, 2},
             lag \in {0, 2}}
    \cup {[rows |-> SharedBurst(k, other), clock |-> k - 1, units |-> 2] :
             k \in (MaxBurst - 1)..MaxBurst, other \in {1, 2}}

RECURSIVE SeriesUnits(_, _)
\* The drugs table after registering units i..n of the seed batch.
SeriesUnits(table, n) ==
  IF Len(table) >= n THEN table
  ELSE SeriesUnits(save_drug_enhanced(table, Len(table), "Dolo 650",
                                      SeedBatchId,
                                      UniqueId(SeedBatchId, Len(table) + 1)),
                   n)

\* A start on an existing database: the registered units (one, or two of
\* one batch), their checkpoints, an empty failed_attempts table, a fresh
\* in-memory chain.
InitSeries ==
  /\ batch_seq = 0
  /\ \E store \in DrawnStores :
       /\ drugs = SeriesUnits(<<>>, store.units)
       /\ drug_seq = store.units
       /\ supply_chain = store.rows
       /\ now = store.clock
  /\ failed_attempts = <<>>
  /\ chain = <<create_genesis_block(0)>>
  /\ ML_ENABLED \in BOOLEAN
  /\ response = NoResponse

NextSeries ==
  \/ \E u \in ScanIds, a \in ForestAnswers :
       Len(failed_attempts) < MaxSeriesLog /\ VerifyDrug(u, a)
  \/ \E u \in ScanIds : AnalyzeAnomalies(u)
  \/ \E u \in ScanIds : ExtractFeatures(u, SeedMetadata)

SpecSeries == InitSeries /\ [][NextSeries]_vars

\* ------------------------------------------ feature extraction on a store
\* The checkpoints the extraction is run on: the three stages of a
\* complete route, a retail scan outside the expected regions, a scan
\* recorded at latitude 0.0 and longitude 0.0, and a scan recorded without
\* GPS.
FeatureCheckpoints ==
  {[location |-> "Bangalore Factory", event_type |-> "Production Complete",
    gps |-> TRUE],
   [location |-> "Chennai Warehouse", event_type |-> "Warehouse Receipt",
    gps |-> TRUE],
   [location |-> "Mumbai Retail", event_type |-> "Retail Distribution",
    gps |-> TRUE],
   [location |-> "Thane", event_type |-> "Retail Scan", gps |-> TRUE],
   [location |-> "Null Island", event_type |-> "Retail Scan", gps |-> TRUE],
   [location |-> "Delhi", event_type |-> "Retail Scan", gps |-> FALSE]}

\* Their timestamps: Monday 08:50, 09:00 and 18:30, Tuesday 09:00 (24 h
\* 10 min after the first), Thursday 09:00 (72 h after the second).
FeatureTimes ==
  {0, 2, 9 * TicksPerHour + 8, 24 * TicksPerHour + 2, 72 * TicksPerHour + 2}

\* One persisted checkpoint of the unit with id 1.
FeatureRow(checkpoint, ts) ==
  [drug_id    |-> 1,
   location   |-> checkpoint.location,
   latitude   |-> IF checkpoint.gps THEN Coord[checkpoint.location][1]
                  ELSE NoCoord,
   longitude  |-> IF checkpoint.gps THEN Coord[checkpoint.location][2]
                  ELSE NoCoord,
   event_type |-> checkpoint.event_type,
   timestamp  |-> ts]

\* Every supply_chain table of at most MaxFeatureLen such rows.
FeatureSeries ==
  UNION {[1..n -> {FeatureRow(c, t) : c \in FeatureCheckpoints,
                                      t \in FeatureTimes}] :
           n \in 0..MaxFeatureLen}

RECURSIVE FlaggedLog(_, _)
\* The failed_attempts table after one ANOMALY row for each of the units
\* of the seed batch numbered in flagged.
FlaggedLog(table, flagged) ==
  IF flagged = {} THEN table
  ELSE LET i == MinOf(flagged)
       IN  FlaggedLog(log_failed_attempt(table, UniqueId(SeedBatchId, i),
                                         "ANOMALY",
                                         "Impossible travel speed detected"),
                      flagged \ {i})

\* The license number and price a unit may be registered with: a key left
\* out, a NULL column, or a value (prices in half rupees).
MetadataChoices ==
  {SeedMetadata,
   [license_number |-> Val(""),               mrp |-> Val(0)],
   [license_number |-> Absent,                mrp |-> Absent],
   [license_number |-> None,                  mrp |-> Val(60)],
   [license_number |-> Val("20B/UA/2018"),    mrp |-> None],
   [license_number |-> Val("12345"),          mrp |-> Val(0 - 20)],
   [license_number |-> Val("N/A"),            mrp |-> Val(70)],
   [license_number |-> Val("XX-9999-999999"), mrp |-> Val(80)]}

\* A start on an existing database: two units of the seed batch and one
\* unit of an unlisted drug in a batch of its own, checkpoints of the first
\* unit, failed attempts on record for some units of the seed batch.
InitFeatures ==
  /\ drugs =
       save_drug_enhanced(
         save_drug_enhanced(
           save_drug_enhanced(<<>>, 0, "Dolo 650", SeedBatchId,
                              UniqueId(SeedBatchId, 1)),
           1, "Dolo 650", SeedBatchId, UniqueId(SeedBatchId, 2)),
         2, "Augmentin 625 Duo", BatchId(1), UniqueId(BatchId(1), 1))
  /\ drug_seq = 3
  /\ batch_seq = 1
  /\ supply_chain \in FeatureSeries
  /\ failed_attempts \in {FlaggedLog(<<>>, flagged) : flagged \in SUBSET {1, 2}}
  /\ now = 72 * TicksPerHour + 2
  /\ chain = <<create_genesis_block(0)>>
  /\ ML_ENABLED = FALSE
  /\ response = NoResponse

NextFeatures ==
  \E u \in ScanIds, metadata \in MetadataChoices :
    ExtractFeatures(u, metadata)

SpecFeatures == InitFeatures /\ [][NextFeatures]_vars

\* ---------------------------------------------- verifications of a batch
\* A restart on a persisted store: a batch of two units and a unit of
\* another batch, each with its route; the failed-attempt log is empty.
InitBatch ==
  /\ now = 0
  /\ drugs =
       save_drug_enhanced(
         save_drug_enhanced(
           save_drug_enhanced(<<>>, 0, "Dolo 650", SeedBatchId,
                              UniqueId(SeedBatchId, 1)),
           1, "Dolo 650", SeedBatchId, UniqueId(SeedBatchId, 2)),
         2, "Augmentin 625 Duo", BatchId(1), UniqueId(BatchId(1), 1))
  /\ drug_seq = 3
  /\ batch_seq = 1
  /\ supply_chain = RouteEvents(RouteEvents(RouteEvents(<<>>, 1, 1), 2, 1),
                                3, 1)
  /\ failed_attempts = <<>>
  /\ chain = <<create_genesis_block(0)>>
  /\ ML_ENABLED \in BOOLEAN
  /\ response = NoResponse

NextBatch ==
  \/ \E u \in ScanIds, a \in ForestAnswers : VerifyDrug(u, a)
  \/ \E u \in ScanIds : ExtractFeatures(u, SeedMetadata)

SpecBatch == InitBatch /\ [][NextBatch]_vars

\* ------------------------------------------- the guard as the clock moves
\* Scans written before this start of the process carry timestamps below 0.
\* The oldest scan of the burst, in ticks before the start.
BurstAges == {TicksPerHour - 2, TicksPerHour - 1}

\* k scans of the unit with id 1 at one retail point: the first `age` ticks
\* before the start, the others one tick before it; and two scans of the
\* unit with id 2 one tick before the start.
AgedBurst(k, age) ==
  [j \in 1..k |->
     SeriesRow("Mumbai Retail", IF j = 1 THEN 0 - age ELSE 0 - 1)]
    \o [j \in 1..2 |->
          [SeriesRow("Thane", 0 - 1) EXCEPT !.drug_id = 2]]

\* A restart on a store with two units, one of them scanned in a burst
\* during the last hour.
InitGuard ==
  /\ now = 0
  /\ drugs = SeriesUnits(<<>>, 2)
  /\ drug_seq = 2
  /\ batch_seq = 0
  /\ \E k \in (MaxBurst - 2)..MaxBurst, age \in BurstAges :
       supply_chain = AgedBurst(k, age)
  /\ failed_attempts = <<>>
  /\ chain = <<create_genesis_block(0)>>
  /\ ML_ENABLED \in BOOLEAN
  /\ response = NoResponse

NextGuard ==
  \/ Tick
  \/ \E i \in 1..Len(drugs), p \in ScanPlaces : AddCheckpoint(drugs[i].id, p)
  \/ \E u \in ScanIds, a \in ForestAnswers : VerifyDrug(u, a)
  \/ \E u \in ScanIds : AnalyzeAnomalies(u)

SpecGuard == InitGuard /\ [][NextGuard]_vars

\* ------------------------------------- a verification and a concurrent scan
\* verify_drug runs in the server's thread pool and every database call opens
\* its own connection, so a scan committed by another request or process
\* may fall between its reads.  The request in flight is kept in response:
\* status "running", with the history it has read.
Running(unique_id, history) ==
  [Answer("verify_drug", unique_id, "running", "", FALSE, None, None, <<>>)
     EXCEPT !.extra = [history |-> history]]

\* GET /verify/{unique_id} up to and including its read of the supply chain
\* (a known unit; the unknown one is answered at once by VerifyDrug).
VerifyDrugReads(unique_id) ==
  /\ get_drug_by_unique_id(unique_id) # None
  /\ response' =
       Running(unique_id,
               get_supply_chain(get_drug_by_unique_id(unique_id).id))
  /\ UNCHANGED <<drugs, drug_seq, batch_seq, supply_chain, failed_attempts,
                 chain, now, ML_ENABLED>>

\* The rest of that request: the ML prediction, analyze_drug_safety (which
\* reads the store again) and the response.
VerifyDrugAnswers(answer) ==
  /\ response.op = "verify_drug"
  /\ response.status = "running"
  /\ Len(failed_attempts) < MaxLog
  /\ LET out == VerifyAfterRead(response.unique_id, response.extra.history,
                                answer)
     IN  /\ failed_attempts' = out.log
         /\ response' = out.response
  /\ UNCHANGED <<drugs, drug_seq, batch_seq, supply_chain, chain, now,
                 ML_ENABLED>>

\* A restart on a store with one unit and up to two checkpoints of it,
\* written one and two ticks before the start.
InitRace ==
  /\ now = 0
  /\ drugs = SeriesUnits(<<>>, 1)
  /\ drug_seq = 1
  /\ batch_seq = 0
  /\ \E n \in 0..2 :
       supply_chain = [j \in 1..n |-> SeriesRow("Delhi", j - 3)]
  /\ failed_attempts = <<>>
  /\ chain = <<create_genesis_block(0)>>
  /\ ML_ENABLED \in BOOLEAN
  /\ response = NoResponse

NextRace ==
  \/ Tick
  \/ \E i \in 1..Len(drugs), p \in ScanPlaces : AddCheckpoint(drugs[i].id, p)
  \/ \E u \in ScanIds : VerifyDrugReads(u)
  \/ \E a \in ForestAnswers : VerifyDrugAnswers(a)
  \/ \E u \in ScanIds : AnalyzeAnomalies(u)

SpecRace == InitRace /\ [][NextRace]_vars

\* ============================================================== properties
\* The last response carries a safety report.
HasReport ==
  /\ response.anomaly # None
  /\ "cloning_alerts" \in DOMAIN response.anomaly

\* The time-sorted checkpoints of the unit the last response is about.
ReportedSeries ==
  SafetyEvents(get_drug_by_unique_id(response.unique_id).id)

\* Great-circle distance of a pair, in 1/100 km, and its elapsed ticks.
PairKm(e1, e2) ==
  haversine_distance(e1.latitude, e1.longitude, e2.latitude, e2.longitude)

Elapsed(e1, e2) == e2.timestamp - e1.timestamp

\* distance / elapsed hours > limit km/h, for a pair with elapsed time > 0.
FasterThan(e1, e2, limit) ==
  PairKm(e1, e2) * TicksPerHour > limit * KmScale * Elapsed(e1, e2)

\* The record a pair with positive elapsed time is to contribute, if any.
ClaimedRecords(e1, e2) ==
  IF FasterThan(e1, e2, 900)
  THEN <<[type |-> "CLONING_SUSPECTED", severity |-> "CRITICAL",
          from_location |-> e1.location, to_location |-> e2.location]>>
  ELSE IF FasterThan(e1, e2, 120) /\ PairKm(e1, e2) > 50 * KmScale
  THEN <<[type |-> "UNUSUAL_SPEED", severity |-> "MEDIUM",
          from_location |-> e1.location, to_location |-> e2.location]>>
  ELSE <<>>

RecordOf(r) ==
  [type |-> r.type, severity |-> r.severity,
   from_location |-> r.from_location, to_location |-> r.to_location]

RECURSIVE PairwiseClassified(_, _, _)
\* alerts is, pair by pair from the i-th pair on, what the pairs are to
\* contribute: a pair with positive elapsed time its claimed record or
\* nothing; a pair with no elapsed time at most one record of its own.
PairwiseClassified(ev, i, alerts) ==
  IF i >= Len(ev) THEN alerts = <<>>
  ELSE IF Elapsed(ev[i], ev[i + 1]) > 0
  THEN LET want == ClaimedRecords(ev[i], ev[i + 1])
       IN  IF want = <<>> THEN PairwiseClassified(ev, i + 1, alerts)
           ELSE /\ alerts # <<>>
                /\ RecordOf(alerts[1]) = want[1]
                /\ PairwiseClassified(ev, i + 1, Tail(alerts))
  ELSE \/ PairwiseClassified(ev, i + 1, alerts)
       \/ /\ alerts # <<>>
          /\ alerts[1].from_location = ev[i].location
          /\ alerts[1].to_location = ev[i + 1].location
          /\ PairwiseClassified(ev, i + 1, Tail(alerts))

\* The log after the step is the log before it plus n rows at its end.
Appended(n) ==
  /\ Len(failed_attempts') = Len(failed_attempts) + n
  /\ SubSeq(failed_attempts', 1, Len(failed_attempts)) = failed_attempts

\* The step is verify_drug(u) with the forest answering a (the response it
\* leaves is looked at first, which decides most steps at once).
VerifyDrugStep(u, a) ==
  /\ response'.op = "verify_drug"
  /\ response'.unique_id = u
  /\ VerifyDrug(u, a)

\* C1: detect_cloning_attempt classifies each adjacent pair on its own:
\* faster than 900 km/h gives one CLONING_SUSPECTED/CRITICAL record, faster
\* than 120 km/h over more than 50 km gives one UNUSUAL_SPEED/MEDIUM record,
\* any other pair gives none; the records come in transition order and
\* number at most count - 1.  (Speed is distance over elapsed hours, so the
\* rule is stated for the pairs with elapsed time; a pair without elapsed
\* time gives at most one record.)
C1_PairwiseClassification ==
  HasReport =>
    /\ Len(response.anomaly.cloning_alerts) <= Len(ReportedSeries) - 1
    /\ PairwiseClassified(ReportedSeries, 1, response.anomaly.cloning_alerts)

\* A three-checkpoint series with elapsed time on both transitions whose
\* first pair is fast but short (no record) and whose second is UNUSUAL_SPEED.
C1_Witness ==
  /\ HasReport
  /\ response.op = "analyze_anomalies"
  /\ Len(ReportedSeries) = 3
  /\ Elapsed(ReportedSeries[1], ReportedSeries[2]) > 0
  /\ Elapsed(ReportedSeries[2], ReportedSeries[3]) > 0
  /\ FasterThan(ReportedSeries[1], ReportedSeries[2], 120)
  /\ Len(response.anomaly.cloning_alerts) = 1
  /\ response.anomaly.cloning_alerts[1].type = "UNUSUAL_SPEED"
  /\ response.anomaly.cloning_alerts[1].from_location
       = ReportedSeries[2].location

\* The classifier tier of the response is SUSPICIOUS or COUNTERFEIT
\* (probability of counterfeit at least 0.75).
ClassifierTierSuspicious ==
  /\ response.ml_analysis # None
  /\ "probability_counterfeit" \in DOMAIN response.ml_analysis
  /\ response.ml_analysis.probability_counterfeit >= 75

\* C2: the report's overall_status is SUSPICIOUS exactly when a CRITICAL
\* transition was found, or the scan-frequency guard fired, or the
\* classifier tier is SUSPICIOUS/COUNTERFEIT, and SAFE otherwise (so SAFE
\* when the only records are MEDIUM and the guard is silent).
C2_StatusIffCriticalOrGuardOrTier ==
  HasReport =>
    /\ response.anomaly.overall_status \in {"SAFE", "SUSPICIOUS"}
    /\ response.anomaly.overall_status = "SUSPICIOUS"
         <=> \/ \E k \in 1..Len(response.anomaly.cloning_alerts) :
                  response.anomaly.cloning_alerts[k].severity = "CRITICAL"
             \/ response.anomaly.scan_frequency_alert # None
             \/ ClassifierTierSuspicious

\* C3: whenever the report computed during a verify_drug request has
\* overall_status SUSPICIOUS, the request appends a FailedAttempt row for
\* the scanned identifier.
C3_SuspiciousReportIsLogged ==
  [][\A u \in ScanIds, a \in ForestAnswers :
       (/\ VerifyDrugStep(u, a)
        /\ response'.anomaly # None
        /\ response'.anomaly.overall_status = "SUSPICIOUS")
       => /\ Appended(1)
          /\ failed_attempts'[Len(failed_attempts')].scanned_id = u]_vars

\* The history has an adjacent pair, with elapsed time, faster than 900 km/h.
HasImpossiblePair(ev) ==
  \E i \in 1..(Len(ev) - 1) :
    Elapsed(ev[i], ev[i + 1]) > 0 /\ FasterThan(ev[i], ev[i + 1], 900)

\* C4: for a known unit whose history has a pair faster than 900 km/h,
\* verify_drug answers suspicious with a CLONING_SUSPECTED record and logs
\* one FailedAttempt of type ANOMALY_DETECTED, whatever the ML step answers.
C4_ImpossiblePairIsAnomalyDetected ==
  [][\A u \in ScanIds, a \in ForestAnswers :
       (/\ get_drug_by_unique_id(u) # None
        /\ VerifyDrugStep(u, a)
        /\ HasImpossiblePair(SafetyEvents(get_drug_by_unique_id(u).id)))
       => /\ response'.status = "suspicious"
          /\ response'.anomaly # None
          /\ \E k \in 1..Len(response'.anomaly.cloning_alerts) :
               response'.anomaly.cloning_alerts[k].type = "CLONING_SUSPECTED"
          /\ Appended(1)
          /\ failed_attempts'[Len(failed_attempts')].attempt_type
               = "ANOMALY_DETECTED"]_vars

\* C5: a verify_drug request appends at most one FailedAttempt row: exactly
\* one when it answers fake or suspicious, none when it answers authentic.
C5_AtMostOneRowPerRequest ==
  [][\A u \in ScanIds, a \in ForestAnswers :
       VerifyDrugStep(u, a)
       => /\ Appended(0) \/ Appended(1)
          /\ response'.status \in {"fake", "suspicious"} => Appended(1)
          /\ response'.status = "authentic" => Appended(0)]_vars

\* A suspicious answer of the anomaly step with its one row in the log.
C5_Witness ==
  /\ response.op = "verify_drug"
  /\ response.status = "suspicious"
  /\ HasReport
  /\ Len(failed_attempts) = 1
  /\ failed_attempts[1].attempt_type = "ANOMALY_DETECTED"

\* C6: verify_drug of an identifier that resolves to no unit answers fake,
\* appends exactly one INVALID_ID row carrying the scanned identifier, runs
\* neither the ML nor the anomaly check, raises no fault, and leaves the
\* drugs and checkpoint tables as they were.
C6_UnknownIdIsFake ==
  [][\A u \in ScanIds, a \in ForestAnswers :
       (get_drug_by_unique_id(u) = None /\ VerifyDrugStep(u, a))
       => /\ response'.http = 200
          /\ response'.status = "fake"
          /\ Appended(1)
          /\ failed_attempts'[Len(failed_attempts')].scanned_id = u
          /\ failed_attempts'[Len(failed_attempts')].attempt_type
               = "INVALID_ID"
          /\ ~response'.ml_called
          /\ response'.ml_analysis = None
          /\ response'.anomaly = None
          /\ drugs' = drugs
          /\ supply_chain' = supply_chain]_vars

\* The unknown identifier was scanned with registered units in the store.
C6_Witness ==
  /\ response.op = "verify_drug"
  /\ response.unique_id = UnknownId
  /\ response.status = "fake"
  /\ Len(drugs) >= 1
  /\ failed_attempts # <<>>
  /\ failed_attempts[Len(failed_attempts)].scanned_id = UnknownId
  /\ failed_attempts[Len(failed_attempts)].attempt_type = "INVALID_ID"

\* C7: the FailedAttempt log is append-only under every operation: each row
\* once in the log stays, unchanged and in place, and the length never drops.
C7_LogIsAppendOnly ==
  [][/\ Len(failed_attempts') >= Len(failed_attempts)
     /\ SubSeq(failed_attempts', 1, Len(failed_attempts))
          = failed_attempts]_vars

\* Two rows were logged, a batch of the kept name was generated, the
\* clean-up deleted every other drug, and an analysis was then requested.
C7_Witness ==
  /\ Len(failed_attempts) = 2
  /\ batch_seq >= 1
  /\ Len(drugs) >= 1
  /\ \A i \in 1..Len(drugs) : drugs[i].drug_name = DRUG_NAME_TO_KEEP
  /\ response.op = "analyze_anomalies"

\* C8: with the classifier unavailable, or answering its error verdict,
\* verify_drug of a known unit still runs the cloning and scan-frequency
\* checks when the history has at least two checkpoints and answers
\* suspicious or authentic; no exception escapes.
C8_DegradedMlStillAnswers ==
  [][\A u \in ScanIds, a \in ForestAnswers :
       (/\ get_drug_by_unique_id(u) # None
        /\ ~ML_ENABLED \/ a.fails
        /\ VerifyDrugStep(u, a))
       => /\ response'.http = 200
          /\ response'.status \in {"suspicious", "authentic"}
          /\ Len(get_supply_chain(get_drug_by_unique_id(u).id)) >= 2
               => response'.anomaly # None]_vars

\* C9: in the cloning detector an adjacent pair with no elapsed time and no
\* distance yields no anomaly record, and no fault.
C9_DuplicateCheckpointIsNotAnomalous ==
  HasReport =>
    /\ response.http = 200
    /\ \A i \in 1..(Len(ReportedSeries) - 1) :
         (/\ Elapsed(ReportedSeries[i], ReportedSeries[i + 1]) = 0
          /\ PairKm(ReportedSeries[i], ReportedSeries[i + 1]) = 0)
         => ~\E k \in 1..Len(response.anomaly.cloning_alerts) :
               /\ response.anomaly.cloning_alerts[k].from_location
                    = ReportedSeries[i].location
               /\ response.anomaly.cloning_alerts[k].to_location
                    = ReportedSeries[i + 1].location
               /\ response.anomaly.cloning_alerts[k].distance_km = 0

\* The pairs of a series with no elapsed time and a positive distance.
ZeroTimeJumps(ev) ==
  {i \in 1..(Len(ev) - 1) :
     Elapsed(ev[i], ev[i + 1]) = 0 /\ PairKm(ev[i], ev[i + 1]) > 0}

\* C10: an adjacent pair with no elapsed time and a positive distance is of
\* maximal severity for every speed computation: the cloning detector
\* emits a CRITICAL record for it, and the speed-anomaly-severity feature of
\* a series containing it is 1.0.
C10_ZeroTimeJumpIsMaximal ==
  /\ HasReport =>
       \A i \in ZeroTimeJumps(ReportedSeries) :
         \E k \in 1..Len(response.anomaly.cloning_alerts) :
           /\ response.anomaly.cloning_alerts[k].severity = "CRITICAL"
           /\ response.anomaly.cloning_alerts[k].from_location
                = ReportedSeries[i].location
           /\ response.anomaly.cloning_alerts[k].to_location
                = ReportedSeries[i + 1].location
  /\ (response.op = "extract_features"
      /\ ZeroTimeJumps(ReportedSeries) # {})
       => response.extra.speed_anomaly_severity = 100

\* C11: a series of 0 or 1 checkpoints gives the cloning detector nothing
\* to report (the empty list, no fault), and a request about such a unit is
\* not answered as an error: insufficient data is a defined case.
C11_InsufficientDataIsNotAnError ==
  (/\ response.op \in {"verify_drug", "analyze_anomalies"}
   /\ get_drug_by_unique_id(response.unique_id) # None
   /\ Len(ReportedSeries) < 2)
  => /\ detect_cloning_attempt(ReportedSeries) = <<>>
     /\ response.anomaly = None
     /\ response.http = 200
     /\ response.status # "error"

\* The last response carries a classifier verdict with its probabilities.
HasVerdict ==
  /\ response.ml_analysis # None
  /\ "probability_counterfeit" \in DOMAIN response.ml_analysis

\* The four tiers from lowest to highest, as predict names them.
TierRank(risk_level) ==
  CASE risk_level = "LOW"      -> 1
    [] risk_level = "MEDIUM"   -> 2
    [] risk_level = "HIGH"     -> 3
    [] risk_level = "CRITICAL" -> 4
    [] OTHER                   -> 0

\* The tier of a counterfeit probability p (in percent): boundaries at
\* 0.50, 0.75 and 0.85.
ClaimedTierRank(p) ==
  IF p < 50 THEN 1 ELSE IF p < 75 THEN 2 ELSE IF p < 85 THEN 3 ELSE 4

\* C15: the tier predict reports is a function of the counterfeit
\* probability alone, with boundaries 0.50, 0.75 and 0.85, and so never
\* gets lower when the probability gets higher.
C15_TierFollowsProbability ==
  /\ HasVerdict =>
       TierRank(response.ml_analysis.risk_level)
         = ClaimedTierRank(response.ml_analysis.probability_counterfeit)
  /\ \A a1, a2 \in ForestAnswers :
       (~a1.fails /\ ~a2.fails
        /\ a1.prob_counterfeit <= a2.prob_counterfeit)
       => TierRank(Predict(a1).risk_level) <= TierRank(Predict(a2).risk_level)

\* Every order in which the checkpoints of ev can be passed.
Orderings(ev) ==
  {[i \in 1..Len(ev) |-> ev[p[i]]] :
     p \in {q \in [1..Len(ev) -> 1..Len(ev)] :
              \A i, j \in 1..Len(ev) : q[i] = q[j] => i = j}}

\* C18: the cloning detector works on the time-ascending order of the
\* checkpoints, not on the order they are passed in: every permutation of
\* a checkpoint list gives the records the time-sorted list gives (stated
\* for lists whose timestamps are all different, so that the time-sorted
\* list is unique).
C18_DetectorIgnoresPassingOrder ==
  (/\ HasReport
   /\ Len(ReportedSeries) <= MaxSeriesLen
   /\ \A i, j \in 1..Len(ReportedSeries) :
        ReportedSeries[i].timestamp = ReportedSeries[j].timestamp => i = j)
  => \A passed \in Orderings(ReportedSeries) :
       detect_cloning_attempt(passed) = response.anomaly.cloning_alerts

\* The last response is the feature dict of an extraction that returned.
FeaturesReturned ==
  response.op = "extract_features" /\ response.status = "ok"

\* A quotient score is 1.0, and a quotient score lies in [0, 1].
IsOne(score) == score.den > 0 /\ score.num = score.den
InUnitInterval(score) ==
  score.den > 0 /\ 0 <= score.num /\ score.num <= score.den

\* C12: for a series of 0 or 1 checkpoints extract_features returns the
\* no-evidence defaults: 1.0 for scan frequency, unique locations,
\* supply-chain completeness, temporal consistency, geofence compliance
\* and business-hours pattern, 0.0 for speed-anomaly severity.
C12_NoEvidenceDefaults ==
  (FeaturesReturned /\ Len(ReportedSeries) < 2)
  => /\ response.extra.scan_frequency_score = 100
     /\ IsOne(response.extra.unique_locations_ratio)
     /\ IsOne(response.extra.supply_chain_completeness)
     /\ IsOne(response.extra.temporal_consistency_score)
     /\ IsOne(response.extra.geofence_compliance_score)
     /\ response.extra.historical_pattern_score = 100
     /\ response.extra.speed_anomaly_severity = 0

\* The features dict holds exactly the ten names and every score is in
\* [0, 1].
TenScoresInRange(features) ==
  /\ DOMAIN features = FEATURE_NAMES_V2
  /\ \A name \in {"scan_frequency_score", "license_validity_score",
                  "price_deviation_score", "speed_anomaly_severity",
                  "historical_pattern_score"} :
       0 <= features[name] /\ features[name] <= 100
  /\ \A name \in {"unique_locations_ratio", "supply_chain_completeness",
                  "temporal_consistency_score", "geofence_compliance_score",
                  "batch_health_score"} :
       InUnitInterval(features[name])

\* The extraction step for unit u with license and price metadata.
ExtractFeaturesStep(u, metadata) ==
  /\ response'.op = "extract_features"
  /\ response'.unique_id = u
  /\ ExtractFeatures(u, metadata)

\* License and price each left out or given a value (not NULL).
Valued(metadata) ==
  metadata.license_number # None /\ metadata.mrp # None

MissingLicense(metadata) ==
  \/ metadata.license_number \in {Absent, None}
  \/ metadata.license_number = Val("")
MissingPrice(metadata) == metadata.mrp \in {Absent, None}

\* C14: a unit whose license or price is missing or empty is scored as
\* invalid and nothing is raised: the license-validity score is 0.0 when
\* the license is missing or empty, the price scorer returns a score.
C14_MissingMetadataIsScored ==
  [][\A u \in ScanIds, metadata \in MetadataChoices :
       ((MissingLicense(metadata) \/ MissingPrice(metadata))
        /\ ExtractFeaturesStep(u, metadata))
       => /\ response'.status = "ok"
          /\ MissingLicense(metadata)
               => response'.extra.license_validity_score = 0
          /\ response'.extra.price_deviation_score \in {0, 30, 70, 100}]_vars

\* The score the bands give one adjacent pair, in hundredths: 1.0 for
\* 0.5 <= ratio <= 2.0, 0.7 for 2.0 < ratio <= 3.0, 0.3 for ratio < 0.3,
\* 0.5 otherwise, with ratio = elapsed / expected route duration.
BandScore(e1, e2) ==
  LET actual_ticks   == e2.timestamp - e1.timestamp
      expected_ticks ==
        get_expected_travel_time(e1.location, e2.location) * TicksPerHour
  IN  IF /\ expected_ticks <= 2 * actual_ticks
         /\ actual_ticks <= 2 * expected_ticks THEN 100
      ELSE IF /\ 2 * expected_ticks < actual_ticks
              /\ actual_ticks <= 3 * expected_ticks THEN 70
      ELSE IF 10 * actual_ticks < 3 * expected_ticks THEN 30
      ELSE 50

RECURSIVE SumBandScores(_, _)
SumBandScores(events, i) ==
  IF i >= Len(events) THEN 0
  ELSE BandScore(events[i], events[i + 1]) + SumBandScores(events, i + 1)

\* C20: the temporal-consistency score of a series is the mean of its
\* pairs' band scores (1.0, 0.7, 0.3 for a ratio under 0.3, else 0.5); a
\* series whose only transition takes under 0.3 of the expected time
\* scores 0.3.
C20_TemporalConsistencyBands ==
  (FeaturesReturned /\ Len(ReportedSeries) >= 2)
  => response.extra.temporal_consistency_score
       = Fraction(SumBandScores(ReportedSeries, 1),
                  100 * (Len(ReportedSeries) - 1))

\* The unit's scans inside the trailing window of the guard, counted over
\* the whole table.
OwnScansInWindow(drug_id, time_window_hours) ==
  Cardinality({i \in 1..Len(supply_chain) :
                 /\ supply_chain[i].drug_id = drug_id
                 /\ supply_chain[i].timestamp
                      > now - time_window_hours * TicksPerHour})

\* Scans of any unit inside the same window.
AllScansInWindow(time_window_hours) ==
  Cardinality({i \in 1..Len(supply_chain) :
                 supply_chain[i].timestamp
                   > now - time_window_hours * TicksPerHour})

\* C17: check_scan_frequency gives a SUSPICIOUS_SCAN_FREQUENCY alert
\* exactly when the unit's own scans inside the trailing window (1 hour)
\* are more than 10; the alert carries that count and the window; scans of
\* other units are not counted.
C17_AlertIffOwnCountAboveTen ==
  HasReport =>
    LET own == OwnScansInWindow(
                 get_drug_by_unique_id(response.unique_id).id,
                 DEFAULT_TIME_WINDOW_HOURS)
        alert == response.anomaly.scan_frequency_alert
    IN  /\ (alert # None) <=> (own > 10)
        /\ alert # None =>
             /\ alert.alert = "SUSPICIOUS_SCAN_FREQUENCY"
             /\ alert.scan_count = own
             /\ alert.time_window_hours = DEFAULT_TIME_WINDOW_HOURS

\* A report whose alert counts the unit's 11 scans while a scan of another
\* unit lies in the same window.
C17_Witness ==
  /\ HasReport
  /\ response.anomaly.scan_frequency_alert # None
  /\ response.anomaly.scan_frequency_alert.scan_count = 11
  /\ AllScansInWindow(DEFAULT_TIME_WINDOW_HOURS) > 11

\* The safety report as a function of a unit's own checkpoints (in time
\* order) and the clock alone.
OwnReport(unique_id, checkpoints, clock) ==
  LET events == [i \in 1..Len(checkpoints) |->
                   [location   |-> checkpoints[i].location,
                    latitude   |-> checkpoints[i].latitude,
                    longitude  |-> checkpoints[i].longitude,
                    event_type |-> checkpoints[i].event_type,
                    timestamp  |-> checkpoints[i].timestamp]]
      cloning == detect_cloning_attempt(events)
      recent == Cardinality({i \in 1..Len(checkpoints) :
                  checkpoints[i].timestamp
                    > clock - DEFAULT_TIME_WINDOW_HOURS * TicksPerHour})
      alert == IF recent > SUSPICIOUS_THRESHOLD
               THEN [alert |-> "SUSPICIOUS_SCAN_FREQUENCY",
                     severity |-> "HIGH",
                     scan_count |-> recent,
                     time_window_hours |-> DEFAULT_TIME_WINDOW_HOURS]
               ELSE None
  IN  [unique_id |-> unique_id,
       analysis_timestamp |-> clock,
       total_events |-> Len(events),
       cloning_alerts |-> cloning,
       scan_frequency_alert |-> alert,
       overall_status |-> OverallStatus(cloning, alert),
       risk_level |-> RiskLevel(cloning, alert)]

\* Status and anomaly report of a verification as a function of the unit's
\* record, its own checkpoints, the clock and the classifier's answer
\* alone (no other unit's rows, no failed attempt on record).
OwnVerdict(unique_id, record, checkpoints, clock, ml_called, answer) ==
  IF record = None THEN [status |-> "fake", anomaly |-> None]
  ELSE IF ml_called /\ MlFlagsCounterfeit(Predict(answer))
  THEN [status |-> "suspicious", anomaly |-> None]
  ELSE LET report == IF Len(checkpoints) >= 2
                     THEN OwnReport(unique_id, checkpoints, clock)
                     ELSE None
       IN  IF report # None /\ report.risk_level = "CRITICAL"
           THEN [status |-> "suspicious", anomaly |-> report]
           ELSE IF ml_called
                   /\ ~(AuthenticMlKeys \subseteq DOMAIN Predict(answer))
           THEN [status |-> "none", anomaly |-> report]
           ELSE [status |-> "authentic", anomaly |-> report]

\* The rows of the table that belong to the unit with this record.
OwnCheckpoints(record) ==
  IF record = None THEN <<>>
  ELSE SupplyChainRows(
         SelectSeq(supply_chain, LAMBDA r : r.drug_id = record.id),
         record.id)

MinuteOfDay(ts) == MinuteOf(ts) % (24 * 60)

\* A timestamp inside the business windows: Monday to Friday 09:00-18:00,
\* Saturday 09:00-13:00.
InBusinessWindow(ts) ==
  \/ /\ WeekdayOf(ts) < 5
     /\ 9 * 60 <= MinuteOfDay(ts) /\ MinuteOfDay(ts) <= 18 * 60
  \/ /\ WeekdayOf(ts) = 5
     /\ 9 * 60 <= MinuteOfDay(ts) /\ MinuteOfDay(ts) <= 13 * 60

\* C21: a checkpoint counts as in-hours exactly when its timestamp lies
\* Monday-Friday within 09:00-18:00 or Saturday within 09:00-13:00; the
\* business-hours score is 1.0 for an in-hours fraction >= 0.8, 0.7 for
\* >= 0.5 and 0.3 otherwise.
C21_BusinessHoursScore ==
  (FeaturesReturned /\ Len(ReportedSeries) > 0)
  => LET n == Len(ReportedSeries)
         in_hours == Cardinality({i \in 1..n :
                       InBusinessWindow(ReportedSeries[i].timestamp)})
     IN  response.extra.historical_pattern_score
           = IF 10 * in_hours >= 8 * n THEN 100
             ELSE IF 2 * in_hours >= n THEN 70
             ELSE 30

\* Ticks in a day.
TicksPerDay == 24 * TicksPerHour

\* The band of n scans over an elapsed time of `ticks`: n / days <= 0.5
\* gives 1.0, <= 2 gives 0.7, <= 5 gives 0.3, more gives 0.0.
FrequencyBand(n, ticks) ==
  IF 2 * n * TicksPerDay <= ticks THEN 100
  ELSE IF n * TicksPerDay <= 2 * ticks THEN 70
  ELSE IF n * TicksPerDay <= 5 * ticks THEN 30
  ELSE 0

\* C22: for n >= 2 checkpoints the scan-frequency score is the band of n
\* divided by the time elapsed between the earliest and the latest
\* checkpoint, in days; it does not depend on the order of the
\* checkpoints; a further checkpoint inside the time span never raises it.
C22_ScanFrequencyBands ==
  (FeaturesReturned /\ Len(ReportedSeries) >= 2)
  => LET ev == ReportedSeries
         first == MinOf(Timestamps(ev))
         last == MaxOf(Timestamps(ev))
     IN  /\ first < last =>
              response.extra.scan_frequency_score
                = FrequencyBand(Len(ev), last - first)
         /\ \A passed \in Orderings(ev) :
              calculate_scan_frequency(passed)
                = response.extra.scan_frequency_score
         /\ \A c \in FeatureCheckpoints, t \in FeatureTimes :
              (first <= t /\ t <= last)
              => calculate_scan_frequency(
                   Append(ev, [location   |-> c.location,
                               latitude   |-> FeatureRow(c, t).latitude,
                               longitude  |-> FeatureRow(c, t).longitude,
                               event_type |-> c.event_type,
                               timestamp  |-> t]))
                   <= response.extra.scan_frequency_score

\* The speed of a pair is at least `limit` km/h; a pair with a positive
\* distance and no elapsed time is faster than every limit.
AtLeastAsFast(e1, e2, limit) ==
  IF Elapsed(e1, e2) = 0 THEN PairKm(e1, e2) > 0
  ELSE PairKm(e1, e2) * TicksPerHour >= limit * KmScale * Elapsed(e1, e2)

\* Some adjacent pair of ev is at least that fast.
SomePairAtLeast(ev, limit) ==
  \E i \in 1..(Len(ev) - 1) : AtLeastAsFast(ev[i], ev[i + 1], limit)

\* C23: the speed-anomaly severity is the band of the maximum speed over
\* the adjacent pairs: below 200 km/h 0.0, below 500 0.3, below 900 0.6,
\* from 900 on 1.0; so one transition faster than 900 km/h gives 1.0
\* whatever the others are, and a further checkpoint at the end never
\* lowers the severity.
C23_SeverityIsBandOfMaxSpeed ==
  (FeaturesReturned /\ Len(ReportedSeries) >= 2)
  => LET ev == ReportedSeries
     IN  /\ response.extra.speed_anomaly_severity
              = IF SomePairAtLeast(ev, 900) THEN 100
                ELSE IF SomePairAtLeast(ev, 500) THEN 60
                ELSE IF SomePairAtLeast(ev, 200) THEN 30
                ELSE 0
         /\ \A p \in SeriesPlaces :
              calculate_speed_severity(
                Append(ev, [location   |-> p,
                            latitude   |-> Coord[p][1],
                            longitude  |-> Coord[p][2],
                            event_type |-> "Retail Scan",
                            timestamp  |-> ev[Len(ev)].timestamp + 1]))
                >= response.extra.speed_anomaly_severity

\* The registered units of the batch of the unit the response is about, and
\* those of them named by at least one row of the failed-attempt log.
BatchUnits ==
  {i \in 1..Len(drugs) :
     drugs[i].batch_id = get_drug_by_unique_id(response.unique_id).batch_id}
FlaggedUnits ==
  {i \in BatchUnits :
     \E k \in 1..Len(failed_attempts) :
       failed_attempts[k].scanned_id = drugs[i].unique_id}

\* C24: the batch-health score is 1 - flagged/total over the units of the
\* batch; it is 1.0 for an empty or unknown batch id and for a batch of at
\* most one unit, and 0.0 exactly when every unit of a batch of several
\* units is flagged.
C24_BatchHealthIsUnflaggedShare ==
  FeaturesReturned
  => LET total   == Cardinality(BatchUnits)
         flagged == Cardinality(FlaggedUnits)
         score   == response.extra.batch_health_score
     IN  /\ score.den > 0
         /\ total <= 1 => IsOne(score)
         /\ total > 1 => score.num * total = (total - flagged) * score.den
         /\ total > 1 => (score.num = 0 <=> flagged = total)
         /\ IsOne(calculate_batch_health(Val(EmptyBatchId)))
         /\ IsOne(calculate_batch_health(Val(BatchId(MaxBatches))))

\* A unit of a fully flagged batch of two, scored 0.0.
C24_Witness ==
  /\ FeaturesReturned
  /\ Cardinality(BatchUnits) = 2
  /\ Cardinality(FlaggedUnits) = 2
  /\ response.extra.batch_health_score.num = 0

\* The batch ids of the registered units.
RegisteredBatches == {drugs[i].batch_id : i \in 1..Len(drugs)}

\* One quotient score is at most, or equal to, another.
AtMost(a, b) == a.num * b.den <= b.num * a.den
SameScore(a, b) == a.num * b.den = b.num * a.den

\* C25: with the batch membership fixed, a step that appends a
\* failed-attempt row never raises the batch-health score of any batch, and
\* a row for an identifier that already has one leaves every score as it
\* was.
C25_BatchHealthNeverRises ==
  [][(/\ drugs' = drugs
      /\ Len(failed_attempts') = Len(failed_attempts) + 1
      /\ SubSeq(failed_attempts', 1, Len(failed_attempts)) = failed_attempts)
     => \A b \in RegisteredBatches :
          /\ AtMost(calculate_batch_health(Val(b))',
                    calculate_batch_health(Val(b)))
          /\ has_failed_attempts(
               failed_attempts'[Len(failed_attempts')].scanned_id)
             => SameScore(calculate_batch_health(Val(b))',
                          calculate_batch_health(Val(b)))]_vars

\* Two rows are on record for one unit of the batch of two, and the
\* extraction for its sibling returned a half.
C25_Witness ==
  /\ FeaturesReturned
  /\ Len(failed_attempts) = 2
  /\ failed_attempts[1].scanned_id = failed_attempts[2].scanned_id
  /\ failed_attempts[1].scanned_id = UniqueId(SeedBatchId, 1)
  /\ response.unique_id = UniqueId(SeedBatchId, 2)
  /\ response.extra.batch_health_score = Fraction(1, 2)

\* The checkpoint carries a latitude and a longitude (0.0 is a coordinate).
HasGps(e) == e.latitude # NoCoord /\ e.longitude # NoCoord

\* Some adjacent pair of ev with all four coordinates is at least that fast.
SomeLocatedPairAtLeast(ev, limit) ==
  \E i \in 1..(Len(ev) - 1) :
    /\ HasGps(ev[i])
    /\ HasGps(ev[i + 1])
    /\ AtLeastAsFast(ev[i], ev[i + 1], limit)

\* C26: a transition is left out of the speed severity exactly when one of
\* its checkpoints lacks a latitude or longitude, and nothing is raised;
\* every pair with four coordinates, 0.0 included, is evaluated; the
\* checkpoints without GPS still count in the total of the unique-locations
\* ratio and toward completeness.  (Series with two checkpoints of one
\* timestamp are the subject of C10 and are left out here.)
C26_OnlyGpsLessPairsAreSkipped ==
  (/\ FeaturesReturned
   /\ Len(ReportedSeries) >= 2
   /\ \A i \in 1..(Len(ReportedSeries) - 1) :
        Elapsed(ReportedSeries[i], ReportedSeries[i + 1]) > 0)
  => LET ev == ReportedSeries
         located == {i \in 1..Len(ev) : HasGps(ev[i])}
         coords == {<<RoundCoord(ev[i].latitude), RoundCoord(ev[i].longitude)>> :
                      i \in located}
     IN  /\ ~IsRaise(extract_features(
                       get_drug_data_for_ml(response.unique_id, SeedMetadata),
                       ev))
         /\ response.extra.speed_anomaly_severity
              = IF SomeLocatedPairAtLeast(ev, 900) THEN 100
                ELSE IF SomeLocatedPairAtLeast(ev, 500) THEN 60
                ELSE IF SomeLocatedPairAtLeast(ev, 200) THEN 30
                ELSE 0
         /\ located # {}
            => response.extra.unique_locations_ratio.num * Len(ev)
                 = Cardinality(coords) * response.extra.unique_locations_ratio.den
         /\ response.extra.supply_chain_completeness
              = calculate_completeness(
                  [i \in 1..Len(ev) |->
                     [ev[i] EXCEPT !.latitude = 0, !.longitude = 0]])

\* The ids of the registered units.
UnitIds == {drugs[i].id : i \in 1..Len(drugs)}

\* C27 as claimed: the count the frequency guard observes for a unit never
\* decreases from one state of the store to the next, and a guard that
\* fires for a unit still fires afterwards.
C27_CountNeverFalls ==
  [][\A d \in UnitIds :
       /\ RecentScanCount(d, DEFAULT_TIME_WINDOW_HOURS)'
            >= RecentScanCount(d, DEFAULT_TIME_WINDOW_HOURS)
       /\ check_scan_frequency(d, DEFAULT_TIME_WINDOW_HOURS) # None
          => check_scan_frequency(d, DEFAULT_TIME_WINDOW_HOURS)' # None]_vars

\* C27, amended: while the clock stands, the count the frequency guard
\* observes for a unit never decreases and a guard that fires keeps firing
\* (checkpoints are only appended); when the clock moves on, the count
\* falls by exactly the scans that left the window, so a guard that fired
\* stops firing once no more than 10 scans remain inside it.
C27_CountNeverFallsWithinWindow ==
  [][\A d \in UnitIds :
       /\ now' = now
          => /\ RecentScanCount(d, DEFAULT_TIME_WINDOW_HOURS)'
                  >= RecentScanCount(d, DEFAULT_TIME_WINDOW_HOURS)
             /\ check_scan_frequency(d, DEFAULT_TIME_WINDOW_HOURS) # None
                => check_scan_frequency(d, DEFAULT_TIME_WINDOW_HOURS)' # None
       /\ now' # now
          => RecentScanCount(d, DEFAULT_TIME_WINDOW_HOURS)'
               = RecentScanCount(d, DEFAULT_TIME_WINDOW_HOURS)
                   - Cardinality(
                       {i \in 1..Len(supply_chain) :
                          /\ supply_chain[i].drug_id = d
                          /\ supply_chain[i].timestamp
                               > now - DEFAULT_TIME_WINDOW_HOURS * TicksPerHour
                          /\ supply_chain[i].timestamp
                               <= now' - DEFAULT_TIME_WINDOW_HOURS * TicksPerHour})]_vars

\* After the clock moved, a check of the unit with 11 checkpoints reports no
\* frequency alert, and the other unit has been scanned since the start.
C27_Witness ==
  /\ HasReport
  /\ now > 0
  /\ response.unique_id = UniqueId(SeedBatchId, 1)
  /\ Len(SupplyChainRows(supply_chain, 1)) = 11
  /\ response.anomaly.scan_frequency_alert = None
  /\ Len(SupplyChainRows(supply_chain, 2)) > 2

\* C28: an authentic verify_drug response that carries an anomaly report
\* lists the history the report was computed from: the report's
\* total_events is the number of returned locations, also when a checkpoint
\* of the unit is appended while the request runs.
C28_ReportMatchesListedHistory ==
  (/\ response.op = "verify_drug"
   /\ response.status = "authentic"
   /\ response.anomaly # None)
  => response.anomaly.total_events = Len(response.locations)

\* The step is the request POST /generate-batch for (drug_name, quantity).
GenerateBatchStep(drug_name, quantity) ==
  /\ response'.op = "generate_batch"
  /\ GenerateBatch(drug_name, quantity)

\* The units, checkpoints and blocks a step adds.
UnitsAdded == Len(drugs') - Len(drugs)
CheckpointsAdded == Len(supply_chain') - Len(supply_chain)
BlocksAdded == Len(chain') - Len(chain)

\* C29: generate_batch with a quantity q <= 50 creates exactly max(q, 0)
\* units with pairwise distinct identifiers, three checkpoints and three
\* blocks for each of them, and reports as blockchain_blocks_added the
\* number of blocks it appended; with q > 50 it is rejected and creates no
\* unit, checkpoint or block.
C29_BatchCreatesWhatItReports ==
  [][\A n \in DrugNames, q \in QuantityChoices :
       GenerateBatchStep(n, q)
       => IF q > MAX_BATCH_QUANTITY
          THEN /\ response'.http = 400
               /\ drugs' = drugs
               /\ supply_chain' = supply_chain
               /\ chain' = chain
          ELSE LET made == IF q > 0 THEN q ELSE 0
               IN  /\ response'.status = "Success"
                   /\ UnitsAdded = made
                   /\ SubSeq(drugs', 1, Len(drugs)) = drugs
                   /\ \A i, j \in 1..Len(drugs') :
                        drugs'[i].unique_id = drugs'[j].unique_id => i = j
                   /\ CheckpointsAdded = 3 * made
                   /\ \A i \in (Len(drugs) + 1)..Len(drugs') :
                        Len(SupplyChainRows(supply_chain', drugs'[i].id)) = 3
                   /\ BlocksAdded = 3 * made
                   /\ SubSeq(chain', 1, Len(chain)) = chain
                   /\ response'.extra.blockchain_blocks_added = BlocksAdded]_vars

\* The chain is well formed: not empty, the genesis block first, block i
\* with index i, each later block storing the hash of the one before it,
\* and verify_chain answering True.
WellFormedChain(blocks) ==
  /\ Len(blocks) >= 1
  /\ blocks[1] = create_genesis_block(blocks[1].timestamp)
  /\ \A p \in 1..Len(blocks) : blocks[p].index = p - 1
  /\ \A p \in 2..Len(blocks) : blocks[p].previous_hash = blocks[p - 1].hash
  /\ verify_chain(blocks)

\* C30: after construction and any sequence of add_block calls the ledger
\* is well formed, and a further add_block appends exactly one block,
\* leaves the existing blocks as they are, and leaves the chain well formed.
C30_ChainWellFormed ==
  /\ WellFormedChain(chain)
  /\ \A d \in 1..MaxUnits, k \in 1..Len(FactoryRoute) :
       LET next == add_block(chain, now, d, FactoryRoute[k].event_type,
                             FactoryRoute[k].location)
       IN  /\ Len(next) = Len(chain) + 1
           /\ SubSeq(next, 1, Len(chain)) = chain
           /\ WellFormedChain(next)

\* A chain holding the genesis block and the three blocks of a unit's route.
C30_Witness ==
  /\ Len(chain) = 1 + Len(FactoryRoute)
  /\ chain[Len(chain)].data.location = "Mumbai Retail"
  /\ verify_chain(chain)

====
